---- MODULE Spec2Model ----
(***************************************************************************)
(* Job scheduling and execution engine of SvennProcessorBE.                *)
(*                                                                         *)
(* The model covers app/jobs/scheduler.py: the persisted Job and           *)
(* JobExecution tables (app/models.py), the in-memory APScheduler trigger  *)
(* registry created in app/__init__.py, the four scheduler operations      *)
(* add_job / remove_job / toggle_job / update_job, and execute_script,     *)
(* the function a trigger runs on a worker thread; the run-now route of    *)
(* app/api/routes.py; and the batch processing of                          *)
(* app/jobs/common/base_processor.py that the units' main() runs, and the  *)
(* DatabaseManager of app/jobs/common/database_manager.py.                 *)
(*                                                                         *)
(* Strings are sequences of one-character strings, so that                 *)
(* parse_cron_expression really splits what it is given.                   *)
(***************************************************************************)
EXTENDS Integers, Sequences, FiniteSets, TLC

VARIABLES
    jobs,        \* table job:            id -> row (models.Job)
    executions,  \* table job_execution:  id -> row (models.JobExecution), as persisted
    registry,    \* APScheduler job store: external id -> live trigger
    runs,        \* worker threads inside execute_script: slot -> frame
    ret,         \* what the call that made the last step returned or raised
    unit,        \* the processor the last call of process_all ran on, and its input
    dbm,         \* a DatabaseManager, its connections and its last operation
    toggles,     \* request threads inside toggle_job: thread -> frame
    umain        \* the main() of a unit that works on the DatabaseManager dbm

vars == <<jobs, executions, registry, runs, ret, unit, dbm, toggles, umain>>

----------------------------------------------------------------------------
(* Bounds of the model *)

MaxJobId == 2      \* job rows get ids 1..MaxJobId
MaxExec == 2       \* job_execution rows get ids 1..MaxExec
MaxRuns == 2       \* worker threads that can be inside execute_script at once
MaxRecords == 4    \* _fetch_raw_data returns at most MaxRecords records
MaxBatch == 3      \* batch sizes 1..MaxBatch, and the default
MaxCalls == 2      \* calls of process_all on one processor
MaxConns == 3      \* connections one DatabaseManager opens

----------------------------------------------------------------------------
(* Small helpers on finite functions *)

Put(f, k, v) == [x \in DOMAIN f \cup {k} |-> IF x = k THEN v ELSE f[x]]

Drop(f, k) == [x \in DOMAIN f \ {k} |-> f[x]]

MaxOf(S) == CHOOSE m \in S : \A x \in S : x <= m

\* The id a table gives a new row: SQLite's INTEGER PRIMARY KEY, max(rowid) + 1.
NextRowId(table) == IF DOMAIN table = {} THEN 1 ELSE MaxOf(DOMAIN table) + 1

----------------------------------------------------------------------------
(* Cron expressions *)

Whitespace == {" "}

\* str.split() with no separator: the maximal runs of non-whitespace characters.
RECURSIVE SplitFrom(_, _, _, _)
SplitFrom(s, i, cur, acc) ==
    IF i > Len(s)
    THEN IF cur = <<>> THEN acc ELSE Append(acc, cur)
    ELSE IF s[i] \in Whitespace
         THEN SplitFrom(s, i + 1, <<>>, IF cur = <<>> THEN acc ELSE Append(acc, cur))
         ELSE SplitFrom(s, i + 1, Append(cur, s[i]), acc)

StrSplit(s) == SplitFrom(s, 1, <<>>, <<>>)

\* parse_cron_expression: the keyword arguments of the cron trigger, or ValueError.
parse_cron_expression(expression) ==
    LET parts == StrSplit(expression)
    IN IF Len(parts) # 5
       THEN [err |-> "ValueError", kw |-> <<>>]
       ELSE [err |-> "none",
             kw |-> [minute |-> parts[1], hour |-> parts[2], day |-> parts[3],
                     month |-> parts[4], day_of_week |-> parts[5]]]

\* The cron evaluator (CronTrigger) accepts a field that is "*" or a number in the
\* field's range and raises ValueError for anything else; "1" is in every range.
FieldAccepted(f) == f \in {<<"*">>, <<"1">>}

TriggerAccepts(kw) ==
    /\ FieldAccepted(kw.minute)
    /\ FieldAccepted(kw.hour)
    /\ FieldAccepted(kw.day)
    /\ FieldAccepted(kw.month)
    /\ FieldAccepted(kw.day_of_week)

EveryMinute == <<"*", " ", "*", " ", "*", " ", "*", " ", "*">>
FirstMinute == <<"1", " ", "*", " ", "*", " ", "*", " ", "*">>
Padded      == <<" ", "*", " ", "*", " ", " ", "*", " ", "*", " ", "*", " ">>
FourFields  == <<"*", " ", "*", " ", "*", " ", "*">>
SixFields   == <<"*", " ", "*", " ", "*", " ", "*", " ", "*", " ", "*">>
BadField    == <<"x", " ", "*", " ", "*", " ", "*", " ", "*">>
EmptyString == <<>>

\* The cron expressions the scheduler operations are called with.
CronInputs == {EveryMinute, FirstMinute, FourFields, BadField}

----------------------------------------------------------------------------
(* The script table and the unit files on disk *)

\* str.split(sep) with a separator: every occurrence separates, nothing is merged.
RECURSIVE SplitOn(_, _, _, _, _)
SplitOn(s, sep, i, cur, acc) ==
    IF i > Len(s)
    THEN Append(acc, cur)
    ELSE IF s[i] = sep
         THEN SplitOn(s, sep, i + 1, <<>>, Append(acc, cur))
         ELSE SplitOn(s, sep, i + 1, Append(cur, s[i]), acc)

\* str.replace(old, ''), on a name written as a sequence of tokens.
RECURSIVE Without(_, _)
Without(s, old) ==
    IF s = <<>> THEN <<>>
    ELSE IF Head(s) = old THEN Without(Tail(s), old)
         ELSE <<Head(s)>> \o Without(Tail(s), old)

\* Rows of table script (models.Script): id -> filename, a path written as tokens.
\* Row 3 names a unit that is not under warehouse_scripts; row 4 still carries a
\* file name of the layout before migration 6aaecfa0b827.
ScriptTable ==
    [s \in 1..4 |->
        CASE s = 1 -> <<"byggmakker", "/", "base_data", ".py">>
          [] s = 2 -> <<"byggmakker", "/", "prices", ".py">>
          [] s = 3 -> <<"byggmakker", "/", "stock", ".py">>
          [] s = 4 -> <<"base_byggmakker", ".py">>]

\* A script id no row has.
UnknownScript == 5

ScriptIds == DOMAIN ScriptTable \cup {UnknownScript}

\* The unit files under JOBS_FOLDER/warehouse_scripts: <<warehouse, file name>>.
UnitFiles ==
    { <<<<"byggmakker">>, <<"base_data", ".py">>>>,
      <<<<"byggmakker">>, <<"store_data", ".py">>>>,
      <<<<"byggmakker">>, <<"prices", ".py">>>>,
      <<<<"byggmakker">>, <<"retailer_data", ".py">>>> }

\* f'script_{script_id}': the external id add_job gives the trigger and the row.
ScriptJobId(script_id) == <<"script_", script_id>>

----------------------------------------------------------------------------
(* The trigger registry: the calls the code makes on the APScheduler instance *)

\* scheduler.add_job(func=execute_script, trigger='cron', args=args, id=id, **kw)
SchedAddJob(reg, id, args, kw) ==
    IF ~TriggerAccepts(kw) THEN [err |-> "ValueError", reg |-> reg]
    ELSE IF id \in DOMAIN reg THEN [err |-> "ConflictingIdError", reg |-> reg]
    ELSE [err |-> "none", reg |-> Put(reg, id, [args |-> args, kw |-> kw, paused |-> FALSE])]

\* scheduler.remove_job(id)
SchedRemoveJob(reg, id) ==
    IF id \notin DOMAIN reg THEN [err |-> "JobLookupError", reg |-> reg]
    ELSE [err |-> "none", reg |-> Drop(reg, id)]

\* scheduler.pause_job(id): the trigger stays registered with no next run time.
SchedPauseJob(reg, id) ==
    IF id \notin DOMAIN reg THEN [err |-> "JobLookupError", reg |-> reg]
    ELSE [err |-> "none", reg |-> [reg EXCEPT ![id].paused = TRUE]]

\* scheduler.resume_job(id): the next run time is computed again.
SchedResumeJob(reg, id) ==
    IF id \notin DOMAIN reg THEN [err |-> "JobLookupError", reg |-> reg]
    ELSE [err |-> "none", reg |-> [reg EXCEPT ![id].paused = FALSE]]

\* reschedule_job storing the fields as they come, without the evaluator's check.
SchedRescheduleJob_Unchecked(reg, id, kw) ==
    IF id \notin DOMAIN reg THEN [err |-> "JobLookupError", reg |-> reg]
    ELSE [err |-> "none", reg |-> [reg EXCEPT ![id].kw = kw, ![id].paused = FALSE]]

\* scheduler.reschedule_job(id, trigger='cron', **kw): builds the new trigger, then
\* stores it with its next run time, which arms a paused trigger.
SchedRescheduleJob(reg, id, kw) ==
    IF ~TriggerAccepts(kw) THEN [err |-> "ValueError", reg |-> reg]
    ELSE IF id \notin DOMAIN reg THEN [err |-> "JobLookupError", reg |-> reg]
    ELSE [err |-> "none", reg |-> [reg EXCEPT ![id].kw = kw, ![id].paused = FALSE]]

Present(reg, id) == id \in DOMAIN reg

Armed(reg, id) == id \in DOMAIN reg /\ ~reg[id].paused

----------------------------------------------------------------------------
(* What a call returned or raised *)

\* op: the function called; arg: its id argument; cron: its cron argument;
\* err: the exception class it raised, or "none"; val: the boolean it returned;
\* rid: the id of the row it returned or wrote; was, had, ext: the job's enabled
\* flag, whether its trigger was registered, and its external id, before the call.
Ret(op, arg, cron, err, val, rid, was, had, ext) ==
    [op |-> op, arg |-> arg, cron |-> cron, err |-> err, val |-> val, rid |-> rid,
     was |-> was, had |-> had, ext |-> ext]

NoRet == Ret("none", 0, <<>>, "none", FALSE, 0, FALSE, FALSE, <<>>)

Raised(op, arg, cron, err) == Ret(op, arg, cron, err, FALSE, 0, FALSE, FALSE, <<>>)

\* The same, for a call on a job row that exists.
RaisedOn(op, arg, cron, err) ==
    Ret(op, arg, cron, err, FALSE, 0, jobs[arg].enabled,
        Present(registry, jobs[arg].job_id), jobs[arg].job_id)

Returned(op, arg, cron, val, rid) ==
    Ret(op, arg, cron, "none", val, rid, jobs[arg].enabled,
        Present(registry, jobs[arg].job_id), jobs[arg].job_id)

----------------------------------------------------------------------------
(* add_job *)

\* The unit file add_job looks for: JOBS_FOLDER/warehouse_scripts/<warehouse>/<file>.
ScriptPathExists(parts) == <<parts[1], parts[2]>> \in UnitFiles

\* Job(job_id=..., script_id=..., cron_expression=...): enabled defaults to True.
NewJob(job_id, script_id, cron_expression) ==
    [job_id |-> job_id, script_id |-> script_id,
     cron_expression |-> cron_expression, enabled |-> TRUE]

\* Column job.job_id is unique: the insert fails when a row holds the same value.
UniqueJobId(job_id) == \A j \in DOMAIN jobs : jobs[j].job_id # job_id

\* What add_job(script_id, cron_expression) raises, and the registry and the job
\* table it leaves. The cron expression is parsed while the arguments of
\* scheduler.add_job are evaluated, before the scheduler is called.
AddJobOutcome(script_id, cron_expression) ==
    LET unchanged(e) == [err |-> e, reg |-> registry, jobs |-> jobs, rid |-> 0]
    IN IF script_id \notin DOMAIN ScriptTable THEN unchanged("ValueError")
       ELSE LET parts == SplitOn(ScriptTable[script_id], "/", 1, <<>>, <<>>)
            IN IF Len(parts) # 2 THEN unchanged("ValueError")
               ELSE IF ~ScriptPathExists(parts) THEN unchanged("FileNotFoundError")
               ELSE LET cron == parse_cron_expression(cron_expression)
                    IN IF cron.err # "none" THEN unchanged(cron.err)
                       ELSE LET job == SchedAddJob(registry, ScriptJobId(script_id),
                                                   <<script_id>>, cron.kw)
                            IN IF job.err # "none" THEN unchanged(job.err)
                               ELSE IF ~UniqueJobId(ScriptJobId(script_id))
                                    THEN [err |-> "IntegrityError", reg |-> job.reg,
                                          jobs |-> jobs, rid |-> 0]
                                    ELSE [err |-> "none", reg |-> job.reg,
                                          jobs |-> Put(jobs, NextRowId(jobs),
                                                       NewJob(ScriptJobId(script_id), script_id,
                                                              cron_expression)),
                                          rid |-> NextRowId(jobs)]

add_job(script_id, cron_expression) ==
    LET out == AddJobOutcome(script_id, cron_expression)
    IN /\ out.err = "none" => out.rid <= MaxJobId
       /\ jobs' = out.jobs
       /\ registry' = out.reg
       /\ ret' = Ret("add_job", script_id, cron_expression, out.err, FALSE, out.rid,
                     FALSE, Present(registry, ScriptJobId(script_id)),
                     ScriptJobId(script_id))
       /\ UNCHANGED <<executions, runs, unit, dbm, toggles, umain>>

\* POST /jobs: the status the route answers with for the way add_job ended.
\* ValueError is the only kind answered as a client error; every other
\* exception, FileNotFoundError included, falls to the generic handler.
create_job(err) ==
    IF err = "none" THEN 201
    ELSE IF err = "ValueError" THEN 400
    ELSE 500

\* DELETE /jobs/<id>: the status for the way remove_job ended.
delete_job(err) ==
    IF err = "none" THEN 204
    ELSE IF err = "ValueError" THEN 404
    ELSE 500

\* POST /jobs/<id>/toggle: the status for the way toggle_job ended.
toggle_job_status(err) ==
    IF err = "none" THEN 200
    ELSE IF err = "ValueError" THEN 404
    ELSE 500

\* PUT /jobs/<id>: the status for the way update_job ended.
update_job_route(err) ==
    IF err = "none" THEN 200
    ELSE IF err = "ValueError" THEN 400
    ELSE 500

\* The status of the route that made the call op.
RouteStatus(op, err) ==
    CASE op = "add_job" -> create_job(err)
      [] op = "remove_job" -> delete_job(err)
      [] op = "toggle_job" -> toggle_job_status(err)
      [] op = "update_job" -> update_job_route(err)

----------------------------------------------------------------------------
(* remove_job *)

\* RemoveTrigger without its except clause: JobLookupError propagates.
RemoveTrigger_Strict(reg, id) == SchedRemoveJob(reg, id)

\* RemoveTrigger without the call of scheduler.remove_job.
RemoveTrigger_Skip(reg, id) == [err |-> "none", reg |-> reg]

\* RemoveTrigger reporting a missing trigger as a job that was not found.
RemoveTrigger_NotFound(reg, id) ==
    LET r == SchedRemoveJob(reg, id)
    IN IF r.err = "JobLookupError" THEN [err |-> "ValueError", reg |-> reg] ELSE r

\* try: scheduler.remove_job(job.job_id) / except JobLookupError: warn and go on.
RemoveTrigger(reg, id) ==
    LET r == SchedRemoveJob(reg, id)
    IN IF r.err = "JobLookupError" THEN [err |-> "none", reg |-> reg] ELSE r

\* db.session.delete(job): relationship Job.executions has no delete cascade, so
\* the unit of work sets job_id of the job's executions to NULL (0) and deletes
\* the job row.
DeleteJobRow(id) ==
    [jobs |-> Drop(jobs, id),
     executions |-> [e \in DOMAIN executions |->
                        IF executions[e].job_id = id
                        THEN [executions[e] EXCEPT !.job_id = 0]
                        ELSE executions[e]]]

remove_job(job_id) ==
    IF job_id \notin DOMAIN jobs
    THEN /\ ret' = Raised("remove_job", job_id, <<>>, "ValueError")
         /\ UNCHANGED <<jobs, executions, registry, runs, unit, dbm, toggles, umain>>
    ELSE LET job == jobs[job_id]
             t == RemoveTrigger(registry, job.job_id)
             d == DeleteJobRow(job_id)
         IN IF t.err # "none"
            THEN /\ ret' = RaisedOn("remove_job", job_id, <<>>, t.err)
                 /\ registry' = t.reg
                 /\ UNCHANGED <<jobs, executions, runs, unit, dbm, toggles, umain>>
            ELSE /\ registry' = t.reg
                 /\ jobs' = d.jobs
                 /\ executions' = d.executions
                 /\ ret' = Returned("remove_job", job_id, <<>>, FALSE, job_id)
                 /\ UNCHANGED <<runs, unit, dbm, toggles, umain>>

----------------------------------------------------------------------------
(* toggle_job *)

\* "job.enabled = True" in place of the negation.
Toggled_Stuck(enabled) == TRUE

\* job.enabled = not job.enabled
Toggled(enabled) == ~enabled

\* ToggleTrigger without the recreation: JobLookupError of resume_job propagates.
ToggleTrigger_NoHeal(reg, job, job_id) ==
    IF job.enabled
    THEN SchedResumeJob(reg, job.job_id)
    ELSE LET r == SchedPauseJob(reg, job.job_id)
         IN IF r.err = "JobLookupError" THEN [err |-> "none", reg |-> reg] ELSE r

\* ToggleTrigger recreating the trigger with args=[job.script_id], as add_job does.
ToggleTrigger_ScriptArg(reg, job, job_id) ==
    IF job.enabled
    THEN LET r == SchedResumeJob(reg, job.job_id)
         IN IF r.err = "JobLookupError"
            THEN LET cron == parse_cron_expression(job.cron_expression)
                 IN IF cron.err # "none" THEN [err |-> cron.err, reg |-> reg]
                    ELSE SchedAddJob(reg, job.job_id, <<job.script_id>>, cron.kw)
            ELSE r
    ELSE LET r == SchedPauseJob(reg, job.job_id)
         IN IF r.err = "JobLookupError" THEN [err |-> "none", reg |-> reg] ELSE r

\* ToggleTrigger arming the trigger with reschedule_job and the every-minute
\* schedule instead of resume_job.
ToggleTrigger_Rearm(reg, job, job_id) ==
    IF job.enabled
    THEN LET r == SchedRescheduleJob(reg, job.job_id,
                                     parse_cron_expression(EveryMinute).kw)
         IN IF r.err = "JobLookupError"
            THEN LET cron == parse_cron_expression(job.cron_expression)
                 IN IF cron.err # "none" THEN [err |-> cron.err, reg |-> reg]
                    ELSE SchedAddJob(reg, job.job_id, <<job_id>>, cron.kw)
            ELSE r
    ELSE LET r == SchedPauseJob(reg, job.job_id)
         IN IF r.err = "JobLookupError" THEN [err |-> "none", reg |-> reg] ELSE r

\* The scheduler calls of toggle_job for a job whose enabled flag is already
\* flipped: resume, or recreate when the trigger is not registered; pause, or
\* nothing when the trigger is not registered.
ToggleTrigger(reg, job, job_id) ==
    IF job.enabled
    THEN LET r == SchedResumeJob(reg, job.job_id)
         IN IF r.err = "JobLookupError"
            THEN LET cron == parse_cron_expression(job.cron_expression)
                 IN IF cron.err # "none" THEN [err |-> cron.err, reg |-> reg]
                    ELSE SchedAddJob(reg, job.job_id, <<job_id>>, cron.kw)
            ELSE r
    ELSE LET r == SchedPauseJob(reg, job.job_id)
         IN IF r.err = "JobLookupError" THEN [err |-> "none", reg |-> reg] ELSE r

toggle_job(job_id) ==
    IF job_id \notin DOMAIN jobs
    THEN /\ ret' = Raised("toggle_job", job_id, <<>>, "ValueError")
         /\ UNCHANGED <<jobs, executions, registry, runs, unit, dbm, toggles, umain>>
    ELSE LET job == [jobs[job_id] EXCEPT !.enabled = Toggled(@)]
             t == ToggleTrigger(registry, job, job_id)
         IN IF t.err # "none"
            THEN \* db.session.rollback(): the flipped flag is not persisted
                 /\ ret' = RaisedOn("toggle_job", job_id, <<>>, t.err)
                 /\ registry' = t.reg
                 /\ UNCHANGED <<jobs, executions, runs, unit, dbm, toggles, umain>>
            ELSE /\ registry' = t.reg
                 /\ jobs' = [jobs EXCEPT ![job_id] = job]
                 /\ ret' = Returned("toggle_job", job_id, <<>>, job.enabled, job_id)
                 /\ UNCHANGED <<executions, runs, unit, dbm, toggles, umain>>

----------------------------------------------------------------------------
(* update_job *)

\* UpdateTrigger passing over JobLookupError as toggle_job does when it pauses:
\* a trigger that is not registered is not recreated.
UpdateTrigger_Pass(reg, job, job_id, kw) ==
    LET r == SchedRescheduleJob(reg, job.job_id, kw)
    IN IF r.err = "JobLookupError" THEN [err |-> "none", reg |-> reg] ELSE r

\* The scheduler calls of update_job: reschedule in place, or recreate when the
\* trigger is not registered.
UpdateTrigger(reg, job, job_id, kw) ==
    LET r == SchedRescheduleJob(reg, job.job_id, kw)
    IN IF r.err = "JobLookupError"
       THEN SchedAddJob(reg, job.job_id, <<job_id>>, kw)
       ELSE r

\* update_job without the test of cron_expression: every call reschedules.
CronSupplied_Always(given, cron_expression) == TRUE

\* "if cron_expression:". given = FALSE is the call without cron_expression
\* (None); an empty string is as false as None.
CronSupplied(given, cron_expression) == given /\ cron_expression # <<>>

update_job(job_id, given, cron_expression) ==
    IF job_id \notin DOMAIN jobs
    THEN /\ ret' = Raised("update_job", job_id, cron_expression, "ValueError")
         /\ UNCHANGED <<jobs, executions, registry, runs, unit, dbm, toggles, umain>>
    ELSE IF ~CronSupplied(given, cron_expression)
    THEN /\ ret' = Returned("update_job", job_id, cron_expression, FALSE, job_id)
         /\ UNCHANGED <<jobs, executions, registry, runs, unit, dbm, toggles, umain>>
    ELSE LET job == jobs[job_id]
             cron == parse_cron_expression(cron_expression)
             t == UpdateTrigger(registry, job, job_id, cron.kw)
         IN IF cron.err # "none"
            THEN /\ ret' = RaisedOn("update_job", job_id, cron_expression, "ValueError")
                 /\ UNCHANGED <<jobs, executions, registry, runs, unit, dbm, toggles, umain>>
            ELSE IF t.err # "none"
            THEN /\ ret' = RaisedOn("update_job", job_id, cron_expression, t.err)
                 /\ registry' = t.reg
                 /\ UNCHANGED <<jobs, executions, runs, unit, dbm, toggles, umain>>
            ELSE /\ registry' = t.reg
                 /\ jobs' = [jobs EXCEPT ![job_id].cron_expression = cron_expression]
                 /\ ret' = Returned("update_job", job_id, cron_expression, FALSE, job_id)
                 /\ UNCHANGED <<executions, runs, unit, dbm, toggles, umain>>

----------------------------------------------------------------------------
(* BaseProcessor: batch processing (app/jobs/common/base_processor.py) *)

\* A candidate record is one process_record works off or one it raises an
\* Exception on.
RecordKinds == {"ok", "bad"}

\* batch_size: int = 100
DefaultBatchSize == 100

\* BaseProcessor.__init__. seen and batches are what the last process_all handed
\* to process_record and to process_batch, in order; cls is the class of the
\* object.
BaseProcessor(batch_size) ==
    [cls |-> "BaseProcessor", batch_size |-> batch_size, processed_count |-> 0,
     error_count |-> 0, seen |-> <<>>, batches |-> <<>>]

\* StorePriceProcessor.__init__: super().__init__(db_manager), the default batch
\* size, and the two counters set to 0 once more.
StorePriceProcessor ==
    [BaseProcessor(DefaultBatchSize) EXCEPT !.cls = "StorePriceProcessor",
                                            !.processed_count = 0, !.error_count = 0]

\* What a price record leads to in StorePriceProcessor.process_record: the upsert
\* goes through; validate_price rejects the price; no product has the EAN; a
\* statement of the transaction raises.
PriceKinds == {"upserted", "invalid_price", "no_product", "db_error"}

\* StorePriceProcessor.process_record and _process_price_record: a rejected
\* price counts an error and returns; an unknown EAN counts an error inside the
\* transaction and returns; an upsert counts a processed record; an exception in
\* the transaction counts an error in _process_price_record, is raised again,
\* counts another error in process_record and is raised again.
StorePriceProcessor_process_record(p, raw_price) ==
    CASE raw_price = "invalid_price"
            -> [p |-> [p EXCEPT !.error_count = @ + 1], raised |-> FALSE]
      [] raw_price = "no_product"
            -> [p |-> [p EXCEPT !.error_count = @ + 1], raised |-> FALSE]
      [] raw_price = "upserted"
            -> [p |-> [p EXCEPT !.processed_count = @ + 1], raised |-> FALSE]
      [] raw_price = "db_error"
            -> [p |-> [p EXCEPT !.error_count = @ + 2], raised |-> TRUE]

\* self.process_record(record), the method of the subclass: the one of
\* StorePriceProcessor, or one that leaves the counters alone.
process_record(p, record) ==
    LET q == [p EXCEPT !.seen = Append(@, record)]
    IN IF p.cls = "StorePriceProcessor"
       THEN StorePriceProcessor_process_record(q, record)
       ELSE [p |-> q, raised |-> record = "bad"]

\* process_batch counting the record as processed before it calls process_record.
RECURSIVE process_batch_CountFirst(_, _)
process_batch_CountFirst(p, batch) ==
    IF batch = <<>> THEN p
    ELSE LET r == process_record([p EXCEPT !.processed_count = @ + 1], Head(batch))
         IN process_batch_CountFirst(IF r.raised
                                     THEN [r.p EXCEPT !.error_count = @ + 1]
                                     ELSE r.p,
                                     Tail(batch))

\* process_batch: each record in its own try; processed_count += 1 after
\* process_record returned, error_count += 1 in "except Exception".
RECURSIVE process_batch(_, _)
process_batch(p, batch) ==
    IF batch = <<>> THEN p
    ELSE LET r == process_record(p, Head(batch))
         IN process_batch(IF r.raised
                          THEN [r.p EXCEPT !.error_count = @ + 1]
                          ELSE [r.p EXCEPT !.processed_count = @ + 1],
                          Tail(batch))

\* The slice raw_data[i:i + n + 1]: one record more than the batch size.
Slice_Inclusive(raw_data, i, n) ==
    SubSeq(raw_data, i + 1, IF i + n + 1 < Len(raw_data) THEN i + n + 1 ELSE Len(raw_data))

\* raw_data[i:i + n], i counted from 0.
Slice(raw_data, i, n) ==
    SubSeq(raw_data, i + 1, IF i + n < Len(raw_data) THEN i + n ELSE Len(raw_data))

\* for i in range(0, len(raw_data), self.batch_size): process_batch(raw_data[i:i + batch_size])
RECURSIVE ProcessFrom(_, _, _)
ProcessFrom(p, raw_data, i) ==
    IF i >= Len(raw_data) THEN p
    ELSE LET batch == Slice(raw_data, i, p.batch_size)
         IN ProcessFrom(process_batch([p EXCEPT !.batches = Append(@, batch)], batch),
                        raw_data, i + p.batch_size)

\* process_all taking a fetch without records for a failure.
process_all_EmptyRaises(p, fetch) ==
    LET q == [p EXCEPT !.seen = <<>>, !.batches = <<>>]
    IN IF fetch.raises \/ fetch.raw_data = <<>> THEN [p |-> q, raised |-> TRUE]
       ELSE [p |-> ProcessFrom(q, fetch.raw_data, 0), raised |-> FALSE]

\* process_all that logs an error of _fetch_raw_data and returns.
process_all_SwallowFetch(p, fetch) ==
    LET q == [p EXCEPT !.seen = <<>>, !.batches = <<>>]
    IN IF fetch.raises \/ fetch.raw_data = <<>> THEN [p |-> q, raised |-> FALSE]
       ELSE [p |-> ProcessFrom(q, fetch.raw_data, 0), raised |-> FALSE]

\* process_all on processor p when _fetch_raw_data answers with fetch: an error
\* of the fetch is logged and raised again; no data is a return; else the batches
\* are processed. process_batch lets no Exception out, so the loop raises none.
process_all(p, fetch) ==
    LET q == [p EXCEPT !.seen = <<>>, !.batches = <<>>]
    IN IF fetch.raises THEN [p |-> q, raised |-> TRUE]
       ELSE IF fetch.raw_data = <<>> THEN [p |-> q, raised |-> FALSE]
       ELSE [p |-> ProcessFrom(q, fetch.raw_data, 0), raised |-> FALSE]

\* No processor has been constructed.
NoUnit ==
    [made |-> FALSE, p |-> BaseProcessor(DefaultBatchSize),
     fetch |-> [raises |-> FALSE, raw_data |-> <<>>],
     raised |-> FALSE, calls |-> 0, exec |-> 0]

\* What _fetch_raw_data can answer: it raises, or it returns a list of records.
RawData == UNION {[1..n -> RecordKinds] : n \in 0..MaxRecords}

Fetches ==
    {[raises |-> TRUE, raw_data |-> <<>>]}
        \cup {[raises |-> FALSE, raw_data |-> s] : s \in RawData}

BatchSizes == 1..MaxBatch \cup {DefaultBatchSize}

\* A processor is constructed outside of any run.
NewProcessor(batch_size) ==
    /\ unit' = [NoUnit EXCEPT !.made = TRUE, !.p = BaseProcessor(batch_size)]
    /\ ret' = NoRet
    /\ UNCHANGED <<jobs, executions, registry, runs, dbm, toggles, umain>>

\* processor = StorePriceProcessor(db_manager), outside of any run.
NewStorePriceProcessor ==
    /\ unit' = [NoUnit EXCEPT !.made = TRUE, !.p = StorePriceProcessor]
    /\ ret' = NoRet
    /\ UNCHANGED <<jobs, executions, registry, runs, dbm, toggles, umain>>

\* What StorePriceProcessor._fetch_raw_data can answer.
PriceFetches ==
    {[raises |-> TRUE, raw_data |-> <<>>]}
        \cup {[raises |-> FALSE, raw_data |-> s] :
                  s \in UNION {[1..n -> PriceKinds] : n \in 0..MaxRecords}}

\* processor.process_all() on the processor at hand.
ProcessAll(fetch) ==
    /\ unit.made
    /\ unit.exec = 0
    /\ unit.calls < MaxCalls
    /\ LET out == process_all(unit.p, fetch)
       IN unit' = [unit EXCEPT !.p = out.p, !.fetch = fetch, !.raised = out.raised,
                               !.calls = @ + 1]
    /\ ret' = NoRet
    /\ UNCHANGED <<jobs, executions, registry, runs, dbm, toggles, umain>>

----------------------------------------------------------------------------

(* toggle_job, statement by statement, on the thread of one request *)

\* The request threads of the API server; each has its own database session.
Requests == {1, 2}

\* The frame of a request thread: where it is in toggle_job, the row its session
\* loaded (with the flag as the thread has set it), the flag as it was loaded,
\* whether the thread was first to load the row, and what the call raised or
\* returned.
NoToggle ==
    [pc |-> "idle", job_id |-> 0, job |-> <<>>, was |-> FALSE, first |-> FALSE,
     err |-> "none", val |-> FALSE]

\* job = Job.query.get(job_id); ValueError when there is none;
\* job.enabled = not job.enabled, on the object of this session.
ToggleQuery(t, job_id) ==
    /\ toggles[t].pc = "idle"
    /\ toggles' = [toggles EXCEPT ![t] =
            IF job_id \notin DOMAIN jobs
            THEN [NoToggle EXCEPT !.pc = "done", !.job_id = job_id, !.err = "ValueError"]
            ELSE [pc |-> "flipped", job_id |-> job_id,
                  job |-> <<[jobs[job_id] EXCEPT !.enabled = Toggled(@)]>>,
                  was |-> jobs[job_id].enabled,
                  first |-> \A u \in Requests \ {t} : toggles[u].job_id # job_id,
                  err |-> "none", val |-> FALSE]]
    /\ UNCHANGED <<jobs, executions, registry, runs, ret, unit, dbm, umain>>

\* The scheduler calls for the flipped flag; an exception rolls the session back
\* and ends the call.
ToggleSchedule(t) ==
    /\ toggles[t].pc = "flipped"
    /\ LET out == ToggleTrigger(registry, toggles[t].job[1], toggles[t].job_id)
       IN /\ registry' = out.reg
          /\ toggles' = [toggles EXCEPT ![t] =
                IF out.err # "none"
                THEN [@ EXCEPT !.pc = "done", !.err = out.err]
                ELSE [@ EXCEPT !.pc = "scheduled"]]
    /\ UNCHANGED <<jobs, executions, runs, ret, unit, dbm, umain>>

\* db.session.commit(): UPDATE job SET enabled = <the flag of this session>
\* WHERE id = job_id; StaleDataError when the row is gone.
ToggleCommit(t) ==
    /\ toggles[t].pc = "scheduled"
    /\ IF toggles[t].job_id \in DOMAIN jobs
       THEN /\ jobs' = [jobs EXCEPT ![toggles[t].job_id].enabled = toggles[t].job[1].enabled]
            /\ toggles' = [toggles EXCEPT ![t].pc = "committed"]
       ELSE /\ jobs' = jobs
            /\ toggles' = [toggles EXCEPT ![t].pc = "done", ![t].err = "StaleDataError"]
    /\ UNCHANGED <<executions, registry, runs, ret, unit, dbm, umain>>

\* return job.enabled: the commit has expired the object, so the attribute is
\* loaded again from the row as it is now.
ToggleReturn(t) ==
    /\ toggles[t].pc = "committed"
    /\ toggles' = [toggles EXCEPT ![t] =
            IF toggles[t].job_id \in DOMAIN jobs
            THEN [@ EXCEPT !.pc = "done", !.val = jobs[toggles[t].job_id].enabled]
            ELSE [@ EXCEPT !.pc = "done", !.err = "ObjectDeletedError"]]
    /\ UNCHANGED <<jobs, executions, registry, runs, ret, unit, dbm, umain>>

----------------------------------------------------------------------------

(* DatabaseManager (app/jobs/common/database_manager.py) *)

\* The keys of self.db_configs.
Stores == {"raw_data", "svenn_products"}

\* A store name no configuration has.
UnknownStore == "unknown"

\* The last call made on the manager: what was called, with which body, which of
\* the calls on the server failed, what it raised and the calls it made on the
\* connection and the cursor, in order.
NoCall ==
    [op |-> "none", store |-> "none", body |-> "none", fails |-> {},
     err |-> "none", conn |-> 0, log |-> <<>>]

\* DatabaseManager.__init__: self.connections = {}. conns are the connections
\* pymysql.connect has returned to this manager, in the order they were opened;
\* connections maps a store name to the index of the connection held for it.
DatabaseManager == [connections |-> <<>>, conns |-> <<>>, call |-> NoCall]

\* db_name in self.connections and self.connections[db_name].open
Held(m, db_name) ==
    db_name \in DOMAIN m.connections /\ m.conns[m.connections[db_name]].open

\* get_connection connecting on every call.
get_connection_Always(m, db_name, fails) ==
    IF db_name \notin Stores THEN [err |-> "KeyError", m |-> m, conn |-> 0]
    ELSE IF "connect" \in fails THEN [err |-> "pymysql.Error", m |-> m, conn |-> 0]
    ELSE LET c == Len(m.conns) + 1
         IN [err |-> "none", conn |-> c,
             m |-> [m EXCEPT !.conns = Append(@, [store |-> db_name, open |-> TRUE]),
                             !.connections = Put(@, db_name, c)]]

\* get_connection: KeyError for a name without configuration; the connection held
\* for the name when it is open; else pymysql.connect, whose error is raised
\* again and whose connection is stored under the name.
get_connection(m, db_name, fails) ==
    IF db_name \notin Stores THEN [err |-> "KeyError", m |-> m, conn |-> 0]
    ELSE IF Held(m, db_name)
    THEN [err |-> "none", m |-> m, conn |-> m.connections[db_name]]
    ELSE IF "connect" \in fails THEN [err |-> "pymysql.Error", m |-> m, conn |-> 0]
    ELSE LET c == Len(m.conns) + 1
         IN [err |-> "none", conn |-> c,
             m |-> [m EXCEPT !.conns = Append(@, [store |-> db_name, open |-> TRUE]),
                             !.connections = Put(@, db_name, c)]]

\* How the body of a with block can end: it runs to its end, it raises an
\* Exception, or it raises a BaseException that is no Exception.
BodyOutcomes == {"returns", "Exception", "BaseException"}

\* Lines 112-119, after the yield: conn.commit() when the body ran to its end;
\* "except Exception" rolls back and raises again, for an Exception of the body
\* and for an error of the commit; "finally" closes the cursor.
CursorExit(body, fails) ==
    CASE body.outcome = "returns" /\ "conn.commit" \notin fails
            -> [err |-> "none", log |-> <<"conn.commit", "cursor.close">>]
      [] body.outcome = "returns" /\ "conn.commit" \in fails
            -> [err |-> "pymysql.Error",
                log |-> <<"conn.commit", "conn.rollback", "cursor.close">>]
      [] body.outcome = "Exception"
            -> [err |-> body.err, log |-> <<"conn.rollback", "cursor.close">>]
      [] body.outcome = "BaseException"
            -> [err |-> "BaseException", log |-> <<"cursor.close">>]

\* with self.get_cursor(db_name) as cursor: body. An error of get_connection is
\* raised before the try; conn.cursor() builds the cursor without a call on the
\* server.
get_cursor(m, db_name, fails, body) ==
    LET gc == get_connection(m, db_name, fails)
        exit == CursorExit(body, fails)
    IN IF gc.err # "none"
       THEN [err |-> gc.err, m |-> gc.m, conn |-> 0, log |-> <<>>]
       ELSE [err |-> exit.err, m |-> gc.m, conn |-> gc.conn,
             log |-> <<"conn.cursor">> \o body.log \o exit.log]

\* The body of a with block that makes no call of its own on the connection.
Plain(outcome) == [outcome |-> outcome, err |-> outcome, log |-> <<"yield">>]

\* Lines 132-139, the body transaction hands to get_cursor: START TRANSACTION,
\* the caller's body, COMMIT; "except Exception" executes ROLLBACK and raises
\* again, for an Exception of the body and for an error of a statement.
TransactionBody(outcome, fails) ==
    CASE "START TRANSACTION" \in fails
            -> [outcome |-> "Exception", err |-> "pymysql.Error",
                log |-> <<"START TRANSACTION", "ROLLBACK">>]
      [] "START TRANSACTION" \notin fails /\ outcome = "returns" /\ "COMMIT" \notin fails
            -> [outcome |-> "returns", err |-> "none",
                log |-> <<"START TRANSACTION", "yield", "COMMIT">>]
      [] "START TRANSACTION" \notin fails /\ outcome = "returns" /\ "COMMIT" \in fails
            -> [outcome |-> "Exception", err |-> "pymysql.Error",
                log |-> <<"START TRANSACTION", "yield", "COMMIT", "ROLLBACK">>]
      [] "START TRANSACTION" \notin fails /\ outcome = "Exception"
            -> [outcome |-> "Exception", err |-> "Exception",
                log |-> <<"START TRANSACTION", "yield", "ROLLBACK">>]
      [] "START TRANSACTION" \notin fails /\ outcome = "BaseException"
            -> [outcome |-> "BaseException", err |-> "BaseException",
                log |-> <<"START TRANSACTION", "yield">>]

\* with self.transaction(db_name) as cursor: body.
transaction(m, db_name, fails, outcome) ==
    get_cursor(m, db_name, fails, TransactionBody(outcome, fails))

\* The connections self.connections holds.
HeldConns(m) == {m.connections[s] : s \in DOMAIN m.connections}

\* One conn.close() for every held connection that is open.
Closes(m) ==
    [i \in 1..Cardinality({c \in HeldConns(m) : m.conns[c].open}) |-> "conn.close"]

\* close_all_connections that clears self.connections and closes nothing.
close_all_connections_ClearOnly(m) == [m EXCEPT !.connections = <<>>]

\* close_all_connections without self.connections.clear().
close_all_connections_NoClear(m) ==
    [m EXCEPT !.conns = [c \in DOMAIN m.conns |->
                            IF c \in HeldConns(m)
                            THEN [m.conns[c] EXCEPT !.open = FALSE]
                            ELSE m.conns[c]]]

\* close_all_connections: conn.close() on every held connection that is open,
\* then self.connections.clear().
close_all_connections(m) ==
    [m EXCEPT !.conns = [c \in DOMAIN m.conns |->
                            IF c \in HeldConns(m)
                            THEN [m.conns[c] EXCEPT !.open = FALSE]
                            ELSE m.conns[c]],
              !.connections = <<>>]

\* The calls on the server that can fail.
FailPoints == {"connect", "conn.commit", "START TRANSACTION", "COMMIT"}

StoreInputs == Stores \cup {UnknownStore}

Call(op, store, body, fails, out) ==
    [op |-> op, store |-> store, body |-> body, fails |-> fails,
     err |-> out.err, conn |-> out.conn, log |-> out.log]

\* db_manager.get_connection(db_name)
GetConnection(db_name, fails) ==
    /\ LET out == get_connection(dbm, db_name, fails)
       IN /\ Len(out.m.conns) <= MaxConns
          /\ dbm' = [out.m EXCEPT !.call =
                        Call("get_connection", db_name, "none", fails,
                             [err |-> out.err, conn |-> out.conn, log |-> <<>>])]
    /\ UNCHANGED <<jobs, executions, registry, runs, ret, unit, toggles, umain>>

\* A with block on db_manager.get_cursor(db_name).
UseCursor(db_name, fails, outcome) ==
    /\ LET out == get_cursor(dbm, db_name, fails, Plain(outcome))
       IN /\ Len(out.m.conns) <= MaxConns
          /\ dbm' = [out.m EXCEPT !.call = Call("get_cursor", db_name, outcome, fails, out)]
    /\ UNCHANGED <<jobs, executions, registry, runs, ret, unit, toggles, umain>>

\* A with block on db_manager.transaction(db_name).
UseTransaction(db_name, fails, outcome) ==
    /\ LET out == transaction(dbm, db_name, fails, outcome)
       IN /\ Len(out.m.conns) <= MaxConns
          /\ dbm' = [out.m EXCEPT !.call = Call("transaction", db_name, outcome, fails, out)]
    /\ UNCHANGED <<jobs, executions, registry, runs, ret, unit, toggles, umain>>

\* db_manager.close_all_connections()
CloseAll ==
    /\ dbm' = [close_all_connections(dbm) EXCEPT !.call =
                  Call("close_all_connections", "none", "none", {},
                       [err |-> "none", conn |-> 0, log |-> Closes(dbm)])]
    /\ UNCHANGED <<jobs, executions, registry, runs, ret, unit, toggles, umain>>

\* The server or the network ends a connection: conn.open is False from then on.
Lose(c) ==
    /\ c \in DOMAIN dbm.conns
    /\ dbm.conns[c].open
    /\ dbm' = [dbm EXCEPT !.conns[c].open = FALSE,
                          !.call = [NoCall EXCEPT !.op = "lose", !.conn = c]]
    /\ UNCHANGED <<jobs, executions, registry, runs, ret, unit, toggles, umain>>

----------------------------------------------------------------------------

(* main() of a unit and its DatabaseManager (byggmakker/base_data.py, *)
(* prices.py, retailer_data.py, store_data.py)                         *)

\* No main() is running. pc is where main() is; raising is what it is about to
\* raise, or has raised, to execute_script.
NoMain == [pc |-> "idle", raising |-> "none"]

\* What leaves a with block of the manager leaves process_all as this: an
\* Exception raised while the records are processed ends in process_batch's
\* handler, anything else goes up.
Escapes(err) == IF err \in {"none", "BaseException"} THEN err ELSE "Exception"

\* main() up to db_manager = DatabaseManager(env_path): a missing .env file or a
\* rejected configuration raises with db_manager still None; else the run has a
\* new manager, which holds no connection.
MainEnter(env) ==
    /\ umain.pc \in {"idle", "ended"}
    /\ IF env # "ok"
       THEN /\ umain' = [pc |-> "ended", raising |-> "Exception"]
            /\ dbm' = dbm
       ELSE /\ umain' = [pc |-> "fetch", raising |-> "none"]
            /\ dbm' = DatabaseManager
    /\ UNCHANGED <<jobs, executions, registry, runs, ret, unit, toggles>>

\* _fetch_raw_data: self.db_manager.execute_query('raw_data', query). Whatever
\* it raises ends process_all.
MainFetch(fails, outcome) ==
    /\ umain.pc = "fetch"
    /\ LET out == get_cursor(dbm, "raw_data", fails, Plain(outcome))
       IN /\ dbm' = [out.m EXCEPT !.call = Call("get_cursor", "raw_data", outcome, fails, out)]
          /\ umain' = IF out.err = "none"
                      THEN [pc |-> "process", raising |-> "none"]
                      ELSE [pc |-> "finally", raising |-> Escapes(out.err)]
    /\ UNCHANGED <<jobs, executions, registry, runs, ret, unit, toggles>>

\* process_record on one record: with self.db_manager.transaction('svenn_products').
\* An Exception is counted by process_batch and the next record is taken; a
\* BaseException ends process_all.
MainRecord(fails, outcome) ==
    /\ umain.pc = "process"
    /\ LET out == transaction(dbm, "svenn_products", fails, outcome)
       IN /\ Len(out.m.conns) <= MaxConns
          /\ dbm' = [out.m EXCEPT !.call =
                        Call("transaction", "svenn_products", outcome, fails, out)]
          /\ umain' = IF out.err = "BaseException"
                      THEN [pc |-> "finally", raising |-> "BaseException"]
                      ELSE umain
    /\ UNCHANGED <<jobs, executions, registry, runs, ret, unit, toggles>>

\* The last record is done: process_all returns.
MainReturn ==
    /\ umain.pc = "process"
    /\ umain' = [pc |-> "finally", raising |-> "none"]
    /\ UNCHANGED <<jobs, executions, registry, runs, ret, unit, dbm, toggles>>

\* finally: if db_manager: db_manager.close_all_connections(); then main() returns
\* or goes on raising.
MainFinally ==
    /\ umain.pc = "finally"
    /\ dbm' = [close_all_connections(dbm) EXCEPT !.call =
                  Call("close_all_connections", "none", "none", {},
                       [err |-> "none", conn |-> 0, log |-> Closes(dbm)])]
    /\ umain' = [umain EXCEPT !.pc = "ended"]
    /\ UNCHANGED <<jobs, executions, registry, runs, ret, unit, toggles>>

\* The server or the network ends a connection while main() runs.
MainLose(c) ==
    /\ umain.pc \in {"process", "finally"}
    /\ Lose(c)

----------------------------------------------------------------------------

(* Process restart *)

\* A frame of execute_script; Idle is a thread that runs nothing. caller is who
\* called execute_script: a trigger, or the run-now route.
Idle ==
    [pc |-> "idle", job_id |-> 0, script |-> 0, exec |-> 0,
     status |-> "none", error_message |-> FALSE, raising |-> "none", db_manager |-> FALSE,
     caller |-> "trigger", trigger |-> <<>>]

Slots == 1..MaxRuns

\* create_app making a new scheduler on every call.
create_app_Fresh(reg, running) == <<>>

\* create_app: "if scheduler is None or not scheduler.running" it makes a new
\* BackgroundScheduler with an empty job store and starts it; nothing is
\* registered from table job. A running scheduler is left as it is.
create_app(reg, running) == IF ~running THEN <<>> ELSE reg

\* The process starts: create_app with no scheduler yet. The threads of the old
\* process are gone.
Restart ==
    /\ registry' = create_app(registry, FALSE)
    /\ runs' = [r \in Slots |-> Idle]
    /\ ret' = Raised("restart", 0, <<>>, "none")
    /\ UNCHANGED <<jobs, executions, unit, dbm, toggles, umain>>

----------------------------------------------------------------------------
(* execute_script, run by a trigger on a worker thread *)

FreeSlots == {r \in Slots : runs[r].pc = "idle"}

\* The runs the executor counts for external id id: those a trigger of that id
\* has started and that have not ended.
Instances(id) == {r \in Slots : runs[r].pc # "idle" /\ runs[r].trigger = id}

\* add_job passes no max_instances and create_app configures none: the
\* scheduler's default holds, one running instance for each id.
max_instances == 1

\* Fire handing the run to a worker whatever the number of runs of the trigger
\* that have not ended.
Fire_Overlap(id) ==
    /\ Armed(registry, id)
    /\ FreeSlots # {}
    /\ LET r == CHOOSE x \in FreeSlots : \A y \in FreeSlots : x <= y
       IN runs' = [runs EXCEPT ![r] = [Idle EXCEPT !.pc = "begin",
                                                   !.job_id = registry[id].args[1],
                                                   !.trigger = id]]
    /\ ret' = NoRet
    /\ UNCHANGED <<jobs, executions, registry, unit, dbm, toggles, umain>>

\* A trigger that is due fires: the scheduler hands execute_script(*args) to a
\* worker thread, unless max_instances runs of the id have not ended yet: then
\* the firing is skipped with a warning.
Fire(id) ==
    /\ Armed(registry, id)
    /\ Cardinality(Instances(id)) < max_instances
    /\ FreeSlots # {}
    /\ LET r == CHOOSE x \in FreeSlots : \A y \in FreeSlots : x <= y
       IN runs' = [runs EXCEPT ![r] = [Idle EXCEPT !.pc = "begin",
                                                   !.job_id = registry[id].args[1],
                                                   !.trigger = id]]
    /\ ret' = NoRet
    /\ UNCHANGED <<jobs, executions, registry, unit, dbm, toggles, umain>>

\* JobExecution(job_id=job.id, start_time=utcnow(), status='running')
NewExecution(job_id) ==
    [job_id |-> job_id, status |-> "running", end_time |-> FALSE, error_message |-> FALSE]

\* EndOfRun with the exception swallowed: the invoker sees a normal return.
EndOfRun_Swallow(r, raising, committed) ==
    /\ runs' = [runs EXCEPT ![r] =
                   IF runs[r].caller = "run_now"
                   THEN [Idle EXCEPT !.pc = "cleanup", !.job_id = runs[r].job_id,
                                     !.script = runs[r].script,
                                     !.raising = "none", !.caller = "run_now"]
                   ELSE Idle]
    /\ ret' = Ret("execute_script", runs[r].job_id, <<>>, "none", committed,
                  runs[r].exec, FALSE, FALSE, <<>>)

\* The run is over: the invoker sees what it raised. A worker thread is free
\* again; the run-now route goes on to its finally block. val tells whether the
\* last commit of the run went through.
EndOfRun(r, raising, committed) ==
    /\ runs' = [runs EXCEPT ![r] =
                   IF runs[r].caller = "run_now"
                   THEN [Idle EXCEPT !.pc = "cleanup", !.job_id = runs[r].job_id,
                                     !.script = runs[r].script,
                                     !.raising = raising, !.caller = "run_now"]
                   ELSE Idle]
    /\ ret' = Ret("execute_script", runs[r].job_id, <<>>, raising, committed,
                  runs[r].exec, FALSE, FALSE, <<>>)

\* ExecBegin going on to resolve the unit without an execution record.
ExecBegin_NoRecord(r) ==
    /\ runs[r].pc = "begin"
    /\ registry' = create_app(registry, TRUE)
    /\ IF runs[r].job_id \notin DOMAIN jobs
       THEN EndOfRun(r, "Exception", FALSE)
       ELSE /\ runs' = [runs EXCEPT ![r].pc = "resolve",
                                    ![r].script = jobs[runs[r].job_id].script_id]
            /\ ret' = NoRet
    /\ UNCHANGED <<jobs, executions, unit, dbm, toggles, umain>>

\* Lines 58-89: create_app() in the process whose scheduler runs, then look the
\* job up, split its script's file name, create and commit the execution record.
\* An error here is raised with execution still None, so neither the handler nor
\* the finally block touches a record.
ExecBegin(r) ==
    /\ runs[r].pc = "begin"
    /\ registry' = create_app(registry, TRUE)
    /\ LET job_id == runs[r].job_id
       IN IF job_id \notin DOMAIN jobs
          THEN /\ EndOfRun(r, "Exception", FALSE)
               /\ UNCHANGED <<jobs, executions, unit, dbm, toggles, umain>>
          ELSE LET parts == SplitOn(ScriptTable[jobs[job_id].script_id], "/", 1, <<>>, <<>>)
               IN IF Len(parts) # 2
                  THEN /\ EndOfRun(r, "Exception", FALSE)
                       /\ UNCHANGED <<jobs, executions, unit, dbm, toggles, umain>>
                  ELSE /\ NextRowId(executions) <= MaxExec
                       /\ executions' = Put(executions, NextRowId(executions),
                                            NewExecution(job_id))
                       /\ runs' = [runs EXCEPT ![r].pc = "resolve",
                                               ![r].script = jobs[job_id].script_id,
                                               ![r].exec = NextRowId(executions),
                                               ![r].status = "running"]
                       /\ ret' = NoRet
                       /\ UNCHANGED <<jobs, unit, dbm, toggles, umain>>

\* What the environment can answer while the unit is resolved: the .env file is
\* missing, DatabaseManager rejects the configuration, the module fails to load,
\* the module has no main(), or all is well.
ResolveOutcomes == {"env_missing", "config_error", "load_error", "no_main", "ok"}

\* import_warehouse_script looks for <warehouse>/<script_name>.py, script_name
\* being the file name with every ".py" removed.
UnitFileExists(script_id) ==
    LET parts == SplitOn(ScriptTable[script_id], "/", 1, <<>>, <<>>)
        script_name == Without(parts[2], ".py")
    IN <<parts[1], script_name \o <<".py">>>> \in UnitFiles

\* except Exception: with a record, status = 'failed' and the message is set.
Handled(frame) ==
    [frame EXCEPT !.pc = "finally", !.status = "failed", !.error_message = TRUE,
                  !.raising = "Exception"]

\* Lines 91-111 up to the call of main(): DatabaseManager, import, hasattr.
ExecResolve(r) ==
    /\ runs[r].pc = "resolve"
    /\ \E o \in ResolveOutcomes :
         LET frame == [runs[r] EXCEPT !.db_manager = o \notin {"env_missing", "config_error"}]
         IN runs' = [runs EXCEPT ![r] =
                        IF o = "ok" /\ UnitFileExists(runs[r].script)
                        THEN [frame EXCEPT !.pc = "main"]
                        ELSE Handled(frame)]
    /\ ret' = NoRet
    /\ UNCHANGED <<jobs, executions, registry, unit, dbm, toggles, umain>>

\* How main() can end: it returns, it raises an Exception, or it raises a
\* BaseException that is no Exception (SystemExit, KeyboardInterrupt).
MainOutcomes == {"returns", "Exception", "BaseException"}

\* Lines 107-119: main() and what "except Exception" does with its outcome.
AfterMain(frame, o) ==
    CASE o = "returns" -> [frame EXCEPT !.pc = "finally", !.status = "completed"]
      [] o = "Exception" -> Handled(frame)
      [] o = "BaseException" -> [frame EXCEPT !.pc = "finally", !.raising = "BaseException"]

ExecMain(r) ==
    /\ runs[r].pc = "main"
    /\ \E o \in MainOutcomes : runs' = [runs EXCEPT ![r] = AfterMain(runs[r], o)]
    /\ ret' = NoRet
    /\ UNCHANGED <<jobs, executions, registry, unit, dbm, toggles, umain>>

\* What can keep main() of a unit from reaching process_all: the .env file is
\* missing in the working directory, or DatabaseManager rejects the configuration.
UnitEnvs == {"ok", "env_missing", "config_error"}

\* main() raising when process_all has counted a record error.
main_Strict(env, fetch, exec) ==
    LET out == process_all(BaseProcessor(DefaultBatchSize), fetch)
    IN IF env # "ok" THEN [outcome |-> "Exception", unit |-> unit]
       ELSE [outcome |-> IF out.raised \/ out.p.error_count > 0
                         THEN "Exception" ELSE "returns",
             unit |-> [made |-> TRUE, p |-> out.p, fetch |-> fetch,
                       raised |-> out.raised, calls |-> 1, exec |-> exec]]

\* main() of a unit run inside the Flask application: DatabaseManager(env_path),
\* a new processor with the default batch size, process_all(); "except Exception"
\* logs and raises again. exec is the execution record of the run.
main(env, fetch, exec) ==
    LET out == process_all(BaseProcessor(DefaultBatchSize), fetch)
    IN IF env # "ok" THEN [outcome |-> "Exception", unit |-> unit]
       ELSE [outcome |-> IF out.raised THEN "Exception" ELSE "returns",
             unit |-> [made |-> TRUE, p |-> out.p, fetch |-> fetch,
                       raised |-> out.raised, calls |-> 1, exec |-> exec]]

\* ExecMain for the units of the repository, which all run a BaseProcessor.
ExecUnitMain(r) ==
    /\ runs[r].pc = "main"
    /\ \E env \in UnitEnvs, fetch \in Fetches :
         LET m == main(env, fetch, runs[r].exec)
         IN /\ runs' = [runs EXCEPT ![r] = AfterMain(runs[r], m.outcome)]
            /\ unit' = m.unit
    /\ ret' = NoRet
    /\ UNCHANGED <<jobs, executions, registry, dbm, toggles, umain>>

\* The row the finally block commits: end_time is set, and with it the status and
\* the message the frame holds.
ClosedRecord(row, frame) ==
    [row EXCEPT !.end_time = TRUE, !.status = frame.status,
                !.error_message = frame.error_message]

\* The commit of the finally block outside of any try: its error is raised in
\* place of what the run was raising.
AfterCommit_Raise(raising, committed) ==
    IF committed THEN raising ELSE "SQLAlchemyError"

\* try: db.session.commit() / except Exception: log and roll back. What the run
\* was raising when it reached the finally block is what it goes on raising.
AfterCommit(raising, committed) == raising

\* Lines 121-133: set end_time and commit; a failed commit is logged and rolled
\* back. Then the frame's DatabaseManager is closed and the run ends.
ExecFinally(r) ==
    /\ runs[r].pc = "finally"
    /\ \E committed \in BOOLEAN :
         /\ executions' = IF committed
                          THEN [executions EXCEPT ![runs[r].exec] = ClosedRecord(@, runs[r])]
                          ELSE executions
         /\ EndOfRun(r, AfterCommit(runs[r].raising, committed), committed)
    /\ UNCHANGED <<jobs, registry, unit, dbm, toggles, umain>>

----------------------------------------------------------------------------
(* POST /run_now/<script_id> *)

Once == <<"o", "n", "c", "e">>

\* f'temp_{script_id}_{datetime.utcnow().timestamp()}': now is the reading of the
\* clock, which differs from call to call.
TempJobId(script_id, now) == <<"temp_", script_id, "_", now>>

\* Lines 457-471: 404 for an unknown script; else a temporary job row is added
\* and committed, and execute_script(temp_job.id) is called on the thread of the
\* request. The id of the new row stands for the reading of the clock.
run_script_now(script_id) ==
    IF script_id \notin DOMAIN ScriptTable
    THEN /\ ret' = Raised("run_script_now", script_id, <<>>, "NotFound")
         /\ UNCHANGED <<jobs, executions, registry, runs, unit, dbm, toggles, umain>>
    ELSE /\ FreeSlots # {}
         /\ NextRowId(jobs) <= MaxJobId
         /\ LET id == NextRowId(jobs)
                r == CHOOSE x \in FreeSlots : \A y \in FreeSlots : x <= y
            IN /\ jobs' = Put(jobs, id, NewJob(TempJobId(script_id, id), script_id, Once))
               /\ runs' = [runs EXCEPT ![r] = [Idle EXCEPT !.pc = "begin", !.job_id = id,
                                                           !.caller = "run_now"]]
               /\ ret' = Ret("run_script_now", script_id, Once, "none", FALSE, id,
                             FALSE, FALSE, TempJobId(script_id, id))
         /\ UNCHANGED <<executions, registry, unit, dbm, toggles, umain>>

\* Lines 472-482: the finally block deletes the temporary row and commits, after
\* a run that returned (202) and after one that raised (500, or the BaseException
\* goes on). Deleting a row that is gone fails the commit: rollback and 500.
RunNowCleanup(r) ==
    /\ runs[r].pc = "cleanup"
    /\ LET id == runs[r].job_id
           gone == id \notin DOMAIN jobs
       IN /\ jobs' = IF gone THEN jobs ELSE DeleteJobRow(id).jobs
          /\ executions' = IF gone THEN executions ELSE DeleteJobRow(id).executions
          /\ ret' = Ret("run_script_now", runs[r].script,
                        <<>>,
                        IF runs[r].raising = "BaseException" THEN "BaseException"
                        ELSE IF gone \/ runs[r].raising # "none" THEN "Exception"
                        ELSE "none",
                        ~gone, id, FALSE, FALSE, <<>>)
    /\ runs' = [runs EXCEPT ![r] = Idle]
    /\ UNCHANGED <<registry, unit, dbm, toggles, umain>>

----------------------------------------------------------------------------
(* The system *)

Init ==
    /\ jobs = <<>>
    /\ executions = <<>>
    /\ registry = <<>>
    /\ runs = [r \in Slots |-> Idle]
    /\ ret = NoRet
    /\ unit = NoUnit
    /\ dbm = DatabaseManager
    /\ toggles = [t \in Requests |-> NoToggle]
    /\ umain = NoMain

JobIds == 1..MaxJobId

\* Ids a caller can pass: those of the rows there can be, and one beyond.
JobIdInputs == 1..(MaxJobId + 1)

\* External ids a trigger can have.
TriggerIds == {ScriptJobId(s) : s \in DOMAIN ScriptTable}

\* The scheduler operations as the API layer calls them, and process restarts:
\* the state is the job table and the trigger registry.
SchedNext ==
    \/ \E s \in ScriptIds, c \in CronInputs : add_job(s, c)
    \/ \E j \in JobIdInputs : remove_job(j)
    \/ \E j \in JobIdInputs : toggle_job(j)
    \/ \E j \in JobIdInputs, c \in CronInputs : update_job(j, TRUE, c)
    \/ \E j \in JobIdInputs : update_job(j, FALSE, <<>>)
    \/ Restart

SpecSched == Init /\ [][SchedNext]_vars

\* Triggers firing and the runs they start, while jobs are added and removed and
\* the process is restarted.
RunScripts == {1, 2}
RunCrons == {EveryMinute}

Next ==
    \/ \E s \in RunScripts, c \in RunCrons : add_job(s, c)
    \/ \E j \in JobIds : remove_job(j)
    \/ Restart
    \/ \E id \in TriggerIds : Fire(id)
    \/ \E r \in Slots : ExecBegin(r)
    \/ \E r \in Slots : ExecResolve(r)
    \/ \E r \in Slots : ExecMain(r)
    \/ \E r \in Slots : ExecFinally(r)

Spec == Init /\ [][Next]_vars

\* One script, one job row at a time, and cron expressions of every shape: the
\* scheduler operations as a function of the cron expression.
FirstHour == <<"*", " ", "1", " ", "*", " ", "*", " ", "*">>

CronStrings ==
    {EveryMinute, FirstMinute, FirstHour, Padded, FourFields, SixFields, BadField,
     EmptyString}

CronScripts == {1}

CronNext ==
    \/ \E s \in CronScripts, c \in CronStrings : add_job(s, c)
    \/ \E j \in JobIds : remove_job(j)
    \/ \E j \in JobIds : toggle_job(j)
    \/ \E j \in JobIds, c \in CronStrings : update_job(j, TRUE, c)
    \/ \E j \in JobIds : update_job(j, FALSE, <<>>)
    \/ Restart

SpecCron == Init /\ [][CronNext]_vars

\* Processors constructed with every batch size and run on every answer of the
\* fetch, more than once.
BatchNext ==
    \/ \E batch_size \in BatchSizes : NewProcessor(batch_size)
    \/ \E fetch \in Fetches : ProcessAll(fetch)

SpecBatch == Init /\ [][BatchNext]_vars

\* The same for the processor of byggmakker/prices.py.
PriceNext ==
    \/ NewStorePriceProcessor
    \/ \E fetch \in PriceFetches : ProcessAll(fetch)

SpecPrice == Init /\ [][PriceNext]_vars

\* The runs of one scheduled job whose unit is a batch processor.
UnitScripts == {1}

UnitNext ==
    \/ \E s \in UnitScripts, c \in RunCrons : add_job(s, c)
    \/ \E id \in TriggerIds : Fire(id)
    \/ \E r \in Slots : ExecBegin(r)
    \/ \E r \in Slots : ExecResolve(r)
    \/ \E r \in Slots : ExecUnitMain(r)
    \/ \E r \in Slots : ExecFinally(r)

SpecUnit == Init /\ [][UnitNext]_vars

\* The run-now route next to the runs of a scheduled job.
NowScripts == {1, 4, UnknownScript}

NowNext ==
    \/ \E s \in UnitScripts, c \in RunCrons : add_job(s, c)
    \/ \E j \in JobIds : remove_job(j)
    \/ \E s \in NowScripts : run_script_now(s)
    \/ \E r \in Slots : RunNowCleanup(r)
    \/ Restart
    \/ \E id \in TriggerIds : Fire(id)
    \/ \E r \in Slots : ExecBegin(r)
    \/ \E r \in Slots : ExecResolve(r)
    \/ \E r \in Slots : ExecMain(r)
    \/ \E r \in Slots : ExecFinally(r)

SpecNow == Init /\ [][NowNext]_vars

\* One DatabaseManager, used in every way, while connections come and go.
DbNext ==
    \/ \E s \in StoreInputs, fails \in SUBSET {"connect"} : GetConnection(s, fails)
    \/ \E s \in StoreInputs, fails \in SUBSET {"connect", "conn.commit"},
          o \in BodyOutcomes : UseCursor(s, fails, o)
    \/ \E s \in StoreInputs, fails \in SUBSET FailPoints,
          o \in BodyOutcomes : UseTransaction(s, fails, o)
    \/ CloseAll
    \/ \E c \in 1..MaxConns : Lose(c)

SpecDb == Init /\ [][DbNext]_vars

\* The main() of a unit, run after run, each run with a manager of its own,
\* while connections are lost.
MainNext ==
    \/ \E env \in UnitEnvs : MainEnter(env)
    \/ \E fails \in SUBSET {"connect", "conn.commit"}, o \in BodyOutcomes : MainFetch(fails, o)
    \/ \E fails \in SUBSET FailPoints, o \in BodyOutcomes : MainRecord(fails, o)
    \/ MainReturn
    \/ MainFinally
    \/ \E c \in 1..MaxConns : MainLose(c)

SpecMain == Init /\ [][MainNext]_vars

\* Two requests toggling, each thread at its own pace, while jobs are added.
ToggleScripts == {1, 2}

ToggleNext ==
    \/ \E s \in ToggleScripts, c \in CronInputs : add_job(s, c)
    \/ \E t \in Requests, j \in JobIdInputs : ToggleQuery(t, j)
    \/ \E t \in Requests : ToggleSchedule(t)
    \/ \E t \in Requests : ToggleCommit(t)
    \/ \E t \in Requests : ToggleReturn(t)

SpecToggle == Init /\ [][ToggleNext]_vars

----------------------------------------------------------------------------
(* Properties *)

\* The call of the last step was made on a job row that exists.
OnJob(op) == ret.op = op /\ ret.ext # <<>>

\* C1: a run of execute_script that created its execution record and committed
\* the closing update leaves the record 'completed' or 'failed', whatever way the
\* run ended; no record stays 'running' after its run.
C1_RunLeavesTerminalStatus ==
    (ret.op = "execute_script" /\ ret.rid # 0 /\ ret.val)
        => executions[ret.rid].status \in {"completed", "failed"}

\* C2: every live trigger of a job carries the job's internal id as its only
\* argument, so that a firing runs the job that owns the trigger.
C2_TriggerCarriesJobId ==
    \A j \in DOMAIN jobs :
        Present(registry, jobs[j].job_id) => registry[jobs[j].job_id].args = <<j>>

\* C3: a persisted job is enabled exactly when its trigger is registered and
\* armed, and disabled exactly when the trigger is absent or paused.
C3_EnabledIffArmed ==
    \A j \in DOMAIN jobs : jobs[j].enabled <=> Armed(registry, jobs[j].job_id)

\* C4: a persisted execution record has its end time set exactly when its status
\* is not 'running'.
C4_EndTimeIffNotRunning ==
    \A e \in DOMAIN executions :
        executions[e].end_time <=> executions[e].status # "running"

C6_ToggleToleratesMissingTrigger ==
    (OnJob("toggle_job") /\ ~ret.had)
        => /\ ret.err = "none"
           /\ ret.val => /\ Armed(registry, ret.ext)
                         /\ jobs[ret.arg].job_id = ret.ext
                         /\ parse_cron_expression(jobs[ret.arg].cron_expression)
                              = [err |-> "none", kw |-> registry[ret.ext].kw]
           /\ ~ret.val => ~Present(registry, ret.ext)

\* A toggle has enabled a job with a schedule of its own and no trigger.
C6_Witness ==
    /\ OnJob("toggle_job") /\ ~ret.had /\ ret.val
    /\ jobs[ret.arg].cron_expression = FirstMinute
    /\ Present(registry, ret.ext)

\* C7: a toggle_job call on an existing job returns the negation of the enabled
\* value it found and persists what it returns; the second of two successive
\* calls on a job brings back the value the first one found.
C7_ToggleTwiceRestores ==
    [][ (ret'.op = "toggle_job" /\ ret'.ext # <<>>)
          => /\ ret'.err = "none"
             /\ ret'.val = ~jobs[ret'.arg].enabled
             /\ jobs'[ret'.arg].enabled = ret'.val
             /\ (OnJob("toggle_job") /\ ret.arg = ret'.arg /\ ret.err = "none")
                   => jobs'[ret'.arg].enabled = ret.was ]_vars

\* A toggle has enabled again a job an earlier toggle had disabled.
C7_Witness ==
    /\ OnJob("toggle_job") /\ ret.err = "none"
    /\ ~ret.was /\ ret.had /\ ret.val
    /\ jobs[ret.arg].enabled

\* C8: remove_job on an existing job whose trigger is not registered succeeds
\* and deletes the job row.
C8_RemoveWithoutTrigger ==
    (OnJob("remove_job") /\ ~ret.had)
        => /\ ret.err = "none"
           /\ ret.arg \notin DOMAIN jobs
           /\ \A j \in DOMAIN jobs : jobs[j].job_id # ret.ext

\* A job whose trigger was lost has been removed.
C8_Witness ==
    OnJob("remove_job") /\ ~ret.had /\ ret.err = "none" /\ ret.arg \notin DOMAIN jobs

\* C9: after a successful remove_job neither the job row nor a trigger with its
\* external id exists: there is nothing left to fire.
C9_RemovedJobHasNoTrigger ==
    (ret.op = "remove_job" /\ ret.err = "none")
        => /\ ret.arg \notin DOMAIN jobs
           /\ \A j \in DOMAIN jobs : jobs[j].job_id # ret.ext
           /\ ~Present(registry, ret.ext)

\* A job whose trigger was registered has been removed.
C9_Witness ==
    ret.op = "remove_job" /\ ret.err = "none" /\ ret.had /\ ~Present(registry, ret.ext)

\* C10: add_job with a cron expression that does not split into five fields
\* raises a validation error (ValueError), persists no row and registers no
\* trigger.
C10_BadCronIsValidationError ==
    (ret.op = "add_job" /\ Len(StrSplit(ret.cron)) # 5)
        => /\ ret.err = "ValueError"
           /\ ret.rid = 0
           /\ ~ret.had => ~Present(registry, ret.ext)

\* The unit a script id stands for is missing: no script row has the id, or
\* the row's file is not under warehouse_scripts.
UnitMissing(script_id) ==
    \/ script_id \notin DOMAIN ScriptTable
    \/ LET parts == SplitOn(ScriptTable[script_id], "/", 1, <<>>, <<>>)
       IN Len(parts) = 2 /\ ~ScriptPathExists(parts)

\* C11: add_job for a script whose unit is missing raises a validation error
\* (ValueError, the kind a malformed cron expression raises) and POST /jobs
\* answers 400.
C11_MissingUnitIsValidationError ==
    (ret.op = "add_job" /\ UnitMissing(ret.arg))
        => /\ ret.err = "ValueError"
           /\ create_job(ret.err) = 400

\* A cron expression the scheduler accepts: five whitespace-separated fields,
\* each one accepted by the cron evaluator.
ValidCron(c) ==
    /\ Len(StrSplit(c)) = 5
    /\ \A i \in 1..5 : FieldAccepted(StrSplit(c)[i])

\* The schedule a cron expression stands for, field by field.
Schedule(c) ==
    [minute |-> StrSplit(c)[1], hour |-> StrSplit(c)[2], day |-> StrSplit(c)[3],
     month |-> StrSplit(c)[4], day_of_week |-> StrSplit(c)[5]]

\* The job row j and its live trigger agree on external id ext and schedule c.
Scheduled(js, reg, j, ext, c) ==
    /\ j \in DOMAIN js
    /\ js[j].job_id = ext
    /\ js[j].cron_expression = c
    /\ Present(reg, ext)
    /\ reg[ext].kw = Schedule(c)

\* C12: add_job with a valid five-field cron expression c, for a script whose
\* unit exists and that has no job yet, succeeds and leaves an armed trigger under
\* the job's external id scheduled by c; toggle_job to disabled keeps the trigger
\* and the row with that id and schedule, paused, and toggle_job back to enabled
\* arms the same trigger again: same external id, same schedule c.
C12_ToggleRoundTripKeepsSchedule ==
    [][ /\ ( /\ ret'.op = "add_job"
             /\ ValidCron(ret'.cron)
             /\ ret'.arg \in DOMAIN ScriptTable
             /\ ~UnitMissing(ret'.arg)
             /\ Len(SplitOn(ScriptTable[ret'.arg], "/", 1, <<>>, <<>>)) = 2
             /\ ~Present(registry, ret'.ext)
             /\ UniqueJobId(ret'.ext) )
            => /\ ret'.err = "none"
               /\ Scheduled(jobs', registry', ret'.rid, ret'.ext, ret'.cron)
               /\ ret'.ext = ScriptJobId(ret'.arg)
               /\ jobs'[ret'.rid].enabled
               /\ Armed(registry', ret'.ext)
        /\ \A j \in DOMAIN jobs :
            ( /\ ret'.op = "toggle_job"
              /\ ret'.arg = j
              /\ Scheduled(jobs, registry, j, jobs[j].job_id, jobs[j].cron_expression)
              /\ jobs[j].enabled <=> Armed(registry, jobs[j].job_id) )
            => /\ ret'.err = "none"
               /\ Scheduled(jobs', registry', j, jobs[j].job_id, jobs[j].cron_expression)
               /\ jobs'[j].enabled = ~jobs[j].enabled
               /\ jobs'[j].enabled <=> Armed(registry', jobs[j].job_id)
      ]_vars

\* A job added with the padded expression has been disabled and is enabled again:
\* its trigger is armed under the script's external id with the schedule of the
\* expression.
C12_Witness ==
    /\ ret.op = "toggle_job" /\ ret.err = "none"
    /\ ret.val /\ ~ret.was /\ ret.had
    /\ Scheduled(jobs, registry, ret.arg, ScriptJobId(1), Padded)
    /\ Armed(registry, ScriptJobId(1))
    /\ registry[ScriptJobId(1)].args = <<1>>

\* C13: update_job(id, c) on an existing job with a valid cron expression c
\* succeeds, and after it the row's cron_expression is c and the registry holds a
\* trigger under the job's external id whose schedule is c: the trigger that was
\* registered, rescheduled in place, or a new armed one carrying the job id when
\* none was registered.
C13_UpdateSchedulesNewCron ==
    [][ \A j \in DOMAIN jobs :
          ( /\ ret'.op = "update_job"
            /\ ret'.arg = j
            /\ ret'.cron # <<>> )
          => /\ ValidCron(ret'.cron) <=> ret'.err = "none"
             /\ ret'.err = "none"
                  => /\ Scheduled(jobs', registry', j, jobs[j].job_id, ret'.cron)
                     /\ jobs' = [jobs EXCEPT ![j].cron_expression = ret'.cron]
                     /\ DOMAIN registry' = DOMAIN registry \cup {jobs[j].job_id}
                     /\ IF Present(registry, jobs[j].job_id)
                        THEN registry'[jobs[j].job_id].args
                                = registry[jobs[j].job_id].args
                        ELSE /\ registry'[jobs[j].job_id].args = <<j>>
                             /\ Armed(registry', jobs[j].job_id)
      ]_vars

\* update_job has given a job whose trigger was not registered the schedule of
\* the first-hour expression: the row holds the expression and a new trigger
\* carries the job id.
C13_Witness ==
    /\ ret.op = "update_job" /\ ret.err = "none"
    /\ ~ret.had
    /\ ret.cron = FirstHour
    /\ Scheduled(jobs, registry, ret.arg, ret.ext, FirstHour)
    /\ registry[ret.ext].args = <<ret.arg>>

\* C14: update_job on an existing job without a new cron expression (None, or the
\* empty string) returns the job and changes neither the job rows (cron
\* expression, enabled flag, external id) nor the trigger registry.
C14_UpdateWithoutCronIsNoOp ==
    [][ \A j \in DOMAIN jobs :
          ( /\ ret'.op = "update_job"
            /\ ret'.arg = j
            /\ ret'.cron = <<>> )
          => /\ ret'.err = "none"
             /\ ret'.rid = j
             /\ jobs' = jobs
             /\ registry' = registry
      ]_vars

\* update_job without a cron expression has returned a disabled job whose
\* trigger is paused on a schedule other than every minute.
C14_Witness ==
    /\ ret.op = "update_job" /\ ret.err = "none"
    /\ ret.cron = <<>>
    /\ ret.rid \in DOMAIN jobs
    /\ ~jobs[ret.rid].enabled
    /\ jobs[ret.rid].cron_expression = FirstMinute
    /\ Present(registry, ret.ext) /\ registry[ret.ext].paused
    /\ registry[ret.ext].kw = Schedule(FirstMinute)

\* C15: every row of table job, the rows of the run-now route included, holds a
\* cron expression of five fields the evaluator accepts.
C15_EveryRowHasValidCron ==
    \A j \in DOMAIN jobs : ValidCron(jobs[j].cron_expression)

\* The positions of the records of raw_data that process_record raises on.
Throwing(raw_data) == {i \in 1..Len(raw_data) : raw_data[i] = "bad"}

\* C16: the first process_all on a new processor, over N fetched records of
\* which some raise in process_record (every k-th, or any other set), returns
\* without raising, with processed_count + error_count = N and error_count the
\* number of records that raised.
C16_CountsAddUp ==
    (unit.made /\ unit.exec = 0 /\ unit.calls = 1 /\ ~unit.fetch.raises)
        => /\ ~unit.raised
           /\ unit.p.processed_count + unit.p.error_count = Len(unit.fetch.raw_data)
           /\ unit.p.error_count = Cardinality(Throwing(unit.fetch.raw_data))

\* Four records in batches of three, every second one raising: two processed,
\* two errors.
C16_Witness ==
    /\ unit.made /\ unit.calls = 1 /\ ~unit.raised
    /\ unit.p.batch_size = 3
    /\ unit.fetch = [raises |-> FALSE, raw_data |-> <<"ok", "bad", "ok", "bad">>]
    /\ unit.p.seen = unit.fetch.raw_data
    /\ unit.p.processed_count = 2
    /\ unit.p.error_count = 2

\* The run that has just ended is the one whose main() ran the processor at hand.
UnitRunEnded ==
    /\ ret.op = "execute_script"
    /\ ret.rid # 0
    /\ unit.made
    /\ unit.exec = ret.rid

\* C17: a run whose fetch returned and in which records raised in process_record
\* returns to its invoker without an error and, its closing commit having gone
\* through, leaves its execution record 'completed': the record errors are
\* counted, they do not fail the run.
C17_RecordErrorsDoNotFailRun ==
    (UnitRunEnded /\ ~unit.fetch.raises /\ Throwing(unit.fetch.raw_data) # {} /\ ret.val)
        => /\ ~unit.raised
           /\ unit.p.error_count = Cardinality(Throwing(unit.fetch.raw_data))
           /\ ret.err = "none"
           /\ executions[ret.rid].status = "completed"
           /\ ~executions[ret.rid].error_message

\* A run over three records, the first and the last raising, has ended with its
\* record completed.
C17_Witness ==
    /\ UnitRunEnded /\ ret.val
    /\ unit.fetch = [raises |-> FALSE, raw_data |-> <<"bad", "ok", "bad">>]
    /\ unit.p.error_count = 2 /\ unit.p.processed_count = 1
    /\ executions[ret.rid].status = "completed"
    /\ executions[ret.rid].end_time

\* C18: when _fetch_raw_data raises, process_all raises without a call of
\* process_record, execute_script raises to its invoker, and the closing commit
\* takes the execution record from 'running' to 'failed' with an error message.
C18_FetchErrorFailsRun ==
    [][ ( /\ ret'.op = "execute_script"
          /\ ret'.rid # 0
          /\ unit'.made
          /\ unit'.exec = ret'.rid
          /\ unit'.fetch.raises
          /\ ret'.val )
        => /\ unit'.raised
           /\ unit'.p.seen = <<>>
           /\ unit'.p.processed_count = 0 /\ unit'.p.error_count = 0
           /\ ret'.err = "Exception"
           /\ executions[ret'.rid].status = "running"
           /\ executions'[ret'.rid].status = "failed"
           /\ executions'[ret'.rid].error_message
           /\ executions'[ret'.rid].end_time
      ]_vars

\* A run whose fetch raised has ended: its record is failed and carries a message.
C18_Witness ==
    /\ UnitRunEnded /\ ret.val
    /\ unit.fetch.raises /\ unit.raised
    /\ unit.p.seen = <<>>
    /\ ret.err = "Exception"
    /\ executions[ret.rid].status = "failed"
    /\ executions[ret.rid].error_message

\* The frames that are inside execute_script.
Running == {r \in Slots : runs[r].pc \in {"begin", "resolve", "main", "finally"}}

\* C19: no step of a run of execute_script, whether the run ends completed or
\* failed, changes a job row or a trigger: the job's trigger stays registered
\* with its schedule, its args and its armed state, so it fires again.
C19_RunLeavesJobAndTrigger ==
    [][ (\E r \in Running : runs'[r] # runs[r] /\ ret'.op # "restart")
          => /\ jobs' = jobs
             /\ registry' = registry
      ]_vars

\* The second run of a job has failed after a first one that failed, and the
\* job's trigger is still armed on the schedule of the row.
C19_Witness ==
    /\ ret.op = "execute_script" /\ ret.err = "Exception"
    /\ ret.rid = 2
    /\ executions[1].status = "failed" /\ executions[2].status = "failed"
    /\ executions[1].job_id = ret.arg /\ executions[2].job_id = ret.arg
    /\ Scheduled(jobs, registry, ret.arg, ScriptJobId(jobs[ret.arg].script_id),
                 jobs[ret.arg].cron_expression)
    /\ Armed(registry, jobs[ret.arg].job_id)

\* Where a frame stands with respect to its execution record: before the record
\* is created nothing is resolved; while the unit is resolved and while main()
\* runs the record is persisted as 'running' and open; main() runs on a unit that
\* was resolved; the finally block is reached with the record still open, by a
\* frame whose unit has returned, failed or was left by a BaseException.
InOrder(r) ==
    LET f == runs[r]
    IN /\ f.pc = "begin" => f.exec = 0 /\ ~f.db_manager /\ f.status = "none"
       /\ f.pc \in {"resolve", "main", "finally"}
            => /\ f.exec \in DOMAIN executions
               /\ executions[f.exec].status = "running"
               /\ ~executions[f.exec].end_time
       /\ f.pc \in {"resolve", "main"} => f.status = "running"
       /\ f.pc = "main" => f.db_manager
       /\ f.pc = "finally"
            => \/ f.status \in {"completed", "failed"}
               \/ f.raising = "BaseException"

\* C20: within a run the execution record is created and persisted as 'running'
\* before the unit is resolved, the unit is resolved before main() runs, and the
\* record is closed after main() has returned or raised: a record is closed only
\* by the finally block of the run that created it, and a record is created only
\* by a run that has resolved nothing yet.
C20_RunOrder ==
    [][ /\ \A r \in Slots : InOrder(r)'
        /\ \A e \in DOMAIN executions :
              ~executions[e].end_time /\ executions'[e].end_time
                => \E r \in Slots : /\ runs[r].pc = "finally"
                                    /\ runs[r].exec = e
                                    /\ runs'[r].pc \notin {"resolve", "main", "finally"}
        /\ \A e \in DOMAIN executions' \ DOMAIN executions :
              \E r \in Slots : /\ runs[r].pc = "begin"
                               /\ runs'[r].pc = "resolve"
                               /\ runs'[r].exec = e
                               /\ executions'[e].status = "running"
      ]_vars

\* A run has gone through all four stages: its record is closed as completed
\* while the run of another job is still in main() with its record open.
C20_Witness ==
    /\ ret.op = "execute_script" /\ ret.err = "none" /\ ret.val
    /\ executions[ret.rid].status = "completed" /\ executions[ret.rid].end_time
    /\ \E r \in Slots : /\ runs[r].pc = "main"
                        /\ runs[r].job_id # ret.arg
                        /\ runs[r].exec # ret.rid
                        /\ executions[runs[r].exec].status = "running"

\* The row is one the run-now route made: its external id starts with temp_.
Transient(row) == row.job_id[1] = "temp_"

OwnOutcome(frame) ==
    IF frame.status = "completed" THEN "none"
    ELSE IF frame.status = "failed" THEN "Exception"
    ELSE "BaseException"

\* C22: when the commit of the closing update fails, execute_script ends the way
\* the run itself ended: it returns after a main() that returned and raises the
\* run's own exception after a failed run, never the error of the commit; the
\* persisted record is left as it was.
C22_CommitFailureKeepsOutcome ==
    [][ \A r \in Slots :
          ( /\ runs[r].pc = "finally"
            /\ runs'[r].pc # "finally"
            /\ ret'.op = "execute_script"
            /\ ~ret'.val )
          => /\ ret'.err = OwnOutcome(runs[r])
             /\ ret'.rid = runs[r].exec
             /\ executions' = executions
      ]_vars

\* A run whose main() returned has ended without an error although its closing
\* commit failed: the record is still 'running'.
C22_Witness ==
    /\ ret.op = "execute_script" /\ ret.rid # 0
    /\ ~ret.val
    /\ ret.err = "none"
    /\ executions[ret.rid].status = "running"
    /\ ~executions[ret.rid].end_time


\* x is one of the calls of the log.
Has(log, x) == \E i \in DOMAIN log : log[i] = x

\* x is in the log before every y of the log.
Before(log, x, y) ==
    \A i \in DOMAIN log : log[i] = y => \E k \in 1..(i - 1) : log[k] = x

\* C23: for every use of get_cursor(store) that entered its scope: when the body
\* ran to its end and the commit succeeded the connection is committed and not
\* rolled back; when the body or the commit raised the connection is rolled back
\* and the exception propagates; in both cases the cursor is closed, last of all.
C23_CursorCommitsOrRollsBack ==
    (dbm.call.op = "get_cursor" /\ Has(dbm.call.log, "conn.cursor"))
        => /\ (dbm.call.body = "returns" /\ "conn.commit" \notin dbm.call.fails)
                => /\ dbm.call.err = "none"
                   /\ Has(dbm.call.log, "conn.commit")
                   /\ ~Has(dbm.call.log, "conn.rollback")
           /\ (dbm.call.body # "returns" \/ "conn.commit" \in dbm.call.fails)
                => /\ dbm.call.err # "none"
                   /\ Has(dbm.call.log, "conn.rollback")
           /\ dbm.call.log[Len(dbm.call.log)] = "cursor.close"

\* C24: for every use of transaction(store) that entered its scope: START
\* TRANSACTION is executed before the body; when the body ran to its end COMMIT
\* is executed and, unless COMMIT itself fails, no ROLLBACK; when the body raised
\* ROLLBACK is executed, no COMMIT, and the exception of the body propagates.
C24_TransactionCommitsOrRollsBack ==
    (dbm.call.op = "transaction" /\ Has(dbm.call.log, "conn.cursor"))
        => /\ Has(dbm.call.log, "START TRANSACTION")
           /\ Before(dbm.call.log, "START TRANSACTION", "yield")
           /\ (Has(dbm.call.log, "yield") /\ dbm.call.body = "returns")
                => /\ Has(dbm.call.log, "COMMIT")
                   /\ "COMMIT" \notin dbm.call.fails => ~Has(dbm.call.log, "ROLLBACK")
           /\ (Has(dbm.call.log, "yield") /\ dbm.call.body # "returns")
                => /\ Has(dbm.call.log, "ROLLBACK")
                   /\ ~Has(dbm.call.log, "COMMIT")
                   /\ dbm.call.err = dbm.call.body


\* C25: after close_all_connections the manager holds no connection and every
\* connection it had opened is closed; a second call changes nothing; a later
\* get_connection for a store opens a new connection.
C25_CloseAllClosesEverything ==
    [][ dbm'.call.op = "close_all_connections"
          => /\ dbm'.connections = <<>>
             /\ \A c \in DOMAIN dbm'.conns : ~dbm'.conns[c].open
             /\ Len(dbm'.conns) = Len(dbm.conns)
             /\ close_all_connections(dbm') = dbm'
             /\ Closes(dbm') = <<>>
             /\ \A s \in Stores :
                  LET out == get_connection(dbm', s, {})
                  IN /\ out.err = "none"
                     /\ out.conn = Len(dbm.conns) + 1
                     /\ out.m.conns[out.conn] = [store |-> s, open |-> TRUE]
                     /\ out.m.connections = Put(<<>>, s, out.conn)
      ]_vars

\* Both stores had an open connection when close_all_connections was called.
C25_Witness ==
    /\ dbm.call.op = "close_all_connections"
    /\ Len(dbm.call.log) = 2
    /\ dbm.connections = <<>>

\* C26: get_connection(store) returns the connection held for the store while it
\* is open and opens a new one when none is held or the held one is not open; a
\* store name without configuration is rejected with an error and opens nothing;
\* at no time are two open connections of the manager for the same store.
C26_OneConnectionPerStore ==
    [][ /\ dbm'.call.op = "get_connection"
          => LET s == dbm'.call.store
                 c == dbm'.call.conn
             IN /\ s \notin Stores
                    => /\ dbm'.call.err = "KeyError"
                       /\ dbm'.conns = dbm.conns
                       /\ dbm'.connections = dbm.connections
                /\ (s \in Stores /\ Held(dbm, s))
                    => /\ dbm'.call.err = "none"
                       /\ c = dbm.connections[s]
                       /\ dbm'.conns = dbm.conns
                       /\ dbm'.connections = dbm.connections
                /\ (s \in Stores /\ ~Held(dbm, s) /\ dbm'.call.err = "none")
                    => /\ c = Len(dbm.conns) + 1
                       /\ dbm'.conns = Append(dbm.conns, [store |-> s, open |-> TRUE])
                       /\ dbm'.connections = Put(dbm.connections, s, c)
                /\ dbm'.call.err # "none"
                    => /\ dbm'.conns = dbm.conns
                       /\ dbm'.connections = dbm.connections
        /\ \A c1, c2 \in DOMAIN dbm'.conns :
              ( /\ dbm'.conns[c1].open /\ dbm'.conns[c2].open
                /\ dbm'.conns[c1].store = dbm'.conns[c2].store ) => c1 = c2
      ]_vars

\* A second connection for a store, opened after the first one was lost.
C26_Witness ==
    /\ dbm.call.op = "get_connection"
    /\ dbm.call.err = "none"
    /\ dbm.call.conn = 2
    /\ dbm.conns[1].store = dbm.conns[2].store
    /\ ~dbm.conns[1].open
    /\ dbm.conns[2].open


ApiOps == {"add_job", "remove_job", "toggle_job", "update_job"}

\* The call failed because what it names does not exist: the script of add_job,
\* the job row of the other operations.
NotFound ==
    \/ ret.op = "add_job" /\ ret.arg \notin DOMAIN ScriptTable
    \/ ret.op \in ApiOps \ {"add_job"} /\ ret.err = "ValueError" /\ ret.ext = <<>>

\* C27: for each of create, delete, toggle and update: a call that fails because
\* the job or the script does not exist is answered with 404, one that fails
\* with another validation error with 400, every other failure with 500.
C27_ErrorStatusByKind ==
    (ret.op \in ApiOps /\ ret.err # "none")
        => RouteStatus(ret.op, ret.err) =
              IF NotFound THEN 404
              ELSE IF ret.err = "ValueError" THEN 400
              ELSE 500


\* C28: remove_job, toggle_job and update_job called with an id no job row has
\* raise the not-found error and leave the job table and the trigger registry as
\* they were; remove_job raises that error in no other case.
C28_NotFoundChangesNothing ==
    [][ /\ ( /\ ret'.op \in {"remove_job", "toggle_job", "update_job"}
             /\ ret'.arg \notin DOMAIN jobs )
            => /\ ret'.err = "ValueError"
               /\ jobs' = jobs
               /\ registry' = registry
        /\ (ret'.op = "remove_job" /\ ret'.err = "ValueError")
            => ret'.arg \notin DOMAIN jobs
      ]_vars

\* update_job for the id of a deleted row, while another job is scheduled.
C28_Witness ==
    /\ ret.op = "update_job"
    /\ ret.err = "ValueError"
    /\ ret.arg = 1
    /\ DOMAIN jobs = {2}
    /\ Present(registry, jobs[2].job_id)


\* C29: after update_job(id, c) has returned for a job whose enabled flag is
\* false, the job has no armed trigger, whether its trigger was present and
\* paused or missing when update_job was called.
C29_UpdateKeepsDisabledJobQuiet ==
    (OnJob("update_job") /\ ret.err = "none" /\ ~ret.was)
        => /\ ~jobs[ret.arg].enabled
           /\ ~Armed(registry, ret.ext)


\* C30: whenever add_job raises, for a validation error, a conflicting external
\* id or a failure to persist the row, the trigger registry and the job table
\* are exactly as they were before the call.
C30_AddJobIsAtomic ==
    [][ (ret'.op = "add_job" /\ ret'.err # "none")
            => /\ jobs' = jobs
               /\ registry' = registry ]_vars


\* Both requests have toggled job j and returned.
BothToggled(j) ==
    \A t \in Requests :
        toggles[t].pc = "done" /\ toggles[t].job_id = j /\ toggles[t].err = "none"

\* C31: two toggle_job calls on the same job, however their statements
\* interleave, have the effect of one call after the other: the persisted enabled
\* flag is what it was before the two calls, and the two calls return opposite
\* values.
C31_ConcurrentTogglesSerialize ==
    \A j \in JobIds :
        BothToggled(j)
            => /\ \A t \in Requests : toggles[t].first => jobs[j].enabled = toggles[t].was
               /\ toggles[1].val # toggles[2].val


\* C32: the first process_all of a StorePriceProcessor over N fetched records
\* increments exactly one of processed_count and error_count, once, for each
\* record: afterwards processed_count + error_count = N.
C32_PriceCountsAddUp ==
    ( /\ unit.made /\ unit.p.cls = "StorePriceProcessor"
      /\ unit.calls = 1 /\ ~unit.fetch.raises )
        => /\ unit.p.seen = unit.fetch.raw_data
           /\ unit.p.processed_count + unit.p.error_count = Len(unit.fetch.raw_data)


C34_InvalidCronUpdateChangesNothing ==
    [][ \A j \in DOMAIN jobs :
          ( /\ ret'.op = "update_job"
            /\ ret'.arg = j
            /\ ret'.cron # <<>>
            /\ ~ValidCron(ret'.cron) )
          => /\ ret'.err = "ValueError"
             /\ update_job_route(ret'.err) = 400
             /\ jobs' = jobs
             /\ registry' = registry
      ]_vars

\* update_job with five fields of which one is rejected has failed on a disabled
\* job: the row and the paused trigger keep the first-minute schedule.
C34_Witness ==
    /\ ret.op = "update_job" /\ ret.err = "ValueError"
    /\ ret.cron = BadField
    /\ Len(StrSplit(BadField)) = 5
    /\ Scheduled(jobs, registry, ret.arg, ret.ext, FirstMinute)
    /\ ~jobs[ret.arg].enabled
    /\ registry[ret.ext].paused


\* C35: in every reachable state every row of job_execution references a row of
\* job that exists: its job_id is neither NULL nor the id of a deleted row.
C35_NoDanglingExecution ==
    \A e \in DOMAIN executions : executions[e].job_id \in DOMAIN jobs


\* C36: every call of process_all starts with processed_count = 0 and
\* error_count = 0: after a second process_all on the same processor the
\* counters tell the records of the second call only.
C36_CountersFreshPerCall ==
    ( /\ unit.made /\ unit.p.cls = "BaseProcessor" /\ unit.exec = 0
      /\ unit.calls = 2 /\ ~unit.fetch.raises )
        => /\ unit.p.seen = unit.fetch.raw_data
           /\ unit.p.processed_count + unit.p.error_count = Len(unit.fetch.raw_data)
           /\ unit.p.error_count = Cardinality(Throwing(unit.fetch.raw_data))


\* C37: when _fetch_raw_data returns no record, process_all on the processor of
\* a run returns without raising, calls process_record and process_batch not
\* once and leaves both counters at 0; the run returns without an error and, its
\* closing commit having gone through, its execution record is 'completed'.
C37_EmptyFetchIsSuccess ==
    [][ /\ ( /\ unit'.made /\ unit'.calls = 1
             /\ ~unit'.fetch.raises /\ unit'.fetch.raw_data = <<>> )
          => /\ ~unit'.raised
             /\ unit'.p.seen = <<>> /\ unit'.p.batches = <<>>
             /\ unit'.p.processed_count = 0 /\ unit'.p.error_count = 0
        /\ ( /\ ret'.op = "execute_script" /\ ret'.rid # 0
             /\ unit'.made /\ unit'.exec = ret'.rid
             /\ ~unit'.fetch.raises /\ unit'.fetch.raw_data = <<>>
             /\ ret'.val )
          => /\ ret'.err = "none"
             /\ executions[ret'.rid].status = "running"
             /\ executions'[ret'.rid].status = "completed"
             /\ executions'[ret'.rid].end_time
             /\ ~executions'[ret'.rid].error_message
      ]_vars

\* A run whose fetch returned nothing has ended with its record completed.
C37_Witness ==
    /\ UnitRunEnded /\ ret.val
    /\ ~unit.fetch.raises /\ unit.fetch.raw_data = <<>>
    /\ unit.p.processed_count = 0 /\ unit.p.error_count = 0
    /\ executions[ret.rid].status = "completed"


\* The least k with k * s >= n.
CeilDiv(n, s) == CHOOSE k \in 0..n : k * s >= n /\ \A m \in 0..n : m * s >= n => k <= m

\* C38: process_all over N > 0 fetched records with batch size s >= 1 hands
\* process_batch ceil(N/s) batches, each of s records except the last, which has
\* the records left over; the batches are consecutive pieces of the fetched
\* sequence in its order, and process_record is called once for each record, in
\* that order, whichever records raise.
C38_BatchesPartitionTheRecords ==
    ( /\ unit.made /\ unit.p.cls = "BaseProcessor" /\ unit.exec = 0 /\ unit.calls >= 1
      /\ ~unit.fetch.raises /\ unit.fetch.raw_data # <<>> )
        => LET raw == unit.fetch.raw_data
               N == Len(raw)
               s == unit.p.batch_size
               b == unit.p.batches
           IN /\ ~unit.raised
              /\ Len(b) = CeilDiv(N, s)
              /\ \A i \in 1..(Len(b) - 1) : Len(b[i]) = s
              /\ Len(b[Len(b)]) = N - (Len(b) - 1) * s
              /\ Len(b[Len(b)]) \in 1..s
              /\ \A i \in 1..Len(b) : \A k \in 1..Len(b[i]) : b[i][k] = raw[(i - 1) * s + k]
              /\ unit.p.seen = raw

\* Three records in batches of two, the first and the last raising: a batch of
\* two and a batch of one, and all three records seen in order.
C38_Witness ==
    /\ unit.made /\ unit.calls = 1 /\ unit.exec = 0
    /\ unit.p.batch_size = 2
    /\ unit.fetch = [raises |-> FALSE, raw_data |-> <<"bad", "ok", "bad">>]
    /\ unit.p.batches = << <<"bad", "ok">>, <<"bad">> >>
    /\ unit.p.seen = <<"bad", "ok", "bad">>


\* The frame is about to fail before its execution record: its job id has no
\* row, or the file name of the job's script does not split into two segments.
FailsBeforeRecord(f) ==
    \/ f.job_id \notin DOMAIN jobs
    \/ /\ f.job_id \in DOMAIN jobs
       /\ Len(SplitOn(ScriptTable[jobs[f.job_id].script_id], "/", 1, <<>>, <<>>)) # 2

\* C39: when execute_script fails before it has created its execution record,
\* because the job id has no row or the script's file name does not split into
\* exactly two segments, table job_execution is left as it was, no record is
\* tied to the run, and the exception reaches the invoker: the scheduler's
\* worker, or the run-now route, which goes on to its cleanup.
C39_EarlyFailureWritesNoRecord ==
    [][ \A r \in Slots :
          ( /\ runs[r].pc = "begin"
            /\ runs'[r].pc # "begin"
            /\ ret'.op # "restart"
            /\ FailsBeforeRecord(runs[r]) )
          => /\ executions' = executions
             /\ ret'.op = "execute_script"
             /\ ret'.arg = runs[r].job_id
             /\ ret'.rid = 0
             /\ ret'.err = "Exception"
             /\ runs[r].caller = "run_now"
                  => runs'[r].pc = "cleanup" /\ runs'[r].raising = "Exception"
             /\ runs[r].caller # "run_now" => runs'[r].pc = "idle"
      ]_vars

\* A run-now of the script whose file name has one segment has failed before
\* its record, next to the closed record of an earlier run.
C39_Witness ==
    /\ ret.op = "execute_script" /\ ret.rid = 0 /\ ret.err = "Exception"
    /\ ret.arg \in DOMAIN jobs
    /\ jobs[ret.arg].script_id = 4
    /\ executions # <<>>
    /\ \A e \in DOMAIN executions : executions[e].job_id # ret.arg


\* C40: when main() of a unit has ended, by returning, by an error of the fetch
\* or by an exception that left the processing of the records, every connection
\* the run's DatabaseManager had opened is closed and the manager holds none.
C40_RunClosesItsConnections ==
    umain.pc \in {"idle", "ended"}
        => /\ \A c \in DOMAIN dbm.conns : ~dbm.conns[c].open
           /\ dbm.connections = <<>>

\* A run has ended on a BaseException of a record with three connections opened,
\* of which its finally block has closed two.
C40_Witness ==
    /\ umain = [pc |-> "ended", raising |-> "BaseException"]
    /\ Len(dbm.conns) = 3
    /\ dbm.call.op = "close_all_connections"
    /\ Len(dbm.call.log) = 2

====
